---- MODULE Spec2Model ----
(***************************************************************************)
(* Smart Building Energy Management System (SBEMS): the anomaly detector   *)
(* (sbems/analytics/anomaly_detector.py) and the monitoring system         *)
(* (sbems/core/monitoring_system.py) as a state machine.                   *)
(*                                                                         *)
(* Time is counted in ticks of 5 seconds.  Confidences, scores and         *)
(* correlations are integers in thousandths.                               *)
(***************************************************************************)
EXTENDS Integers, Naturals, Sequences, FiniteSets, TLC

VARIABLES
    \* AnomalyDetector
    sensor_data,         \* sensor id -> sequence of readings (<<>>: no key)
    sensor_keys,         \* the keys of the sensor_data dict, in insertion order
    detected_anomalies,  \* the anomaly store
    network_graph,       \* the graph snapshot, or NoGraph
    \* Building
    status,              \* sensor id -> SensorStatus value
    zone,                \* sensor id -> zone id or NoZone
    position,            \* sensor id -> coordinate
    \* MonitoringSystem
    config,              \* MonitoringConfig
    is_running,
    stop_event,
    start_time,          \* a time, or NoTime
    monitoring_thread,   \* a thread id, or NoThread
    reading_history,
    alert_history,
    total_readings,
    total_anomalies,
    \* threads and the clock
    now,                 \* datetime.now(), in ticks
    workers,             \* thread id -> the worker's position in _monitoring_loop,
                         \* its locals, and (history) when its loop began and
                         \* when it last ran a detection
    caller,              \* the caller thread's position
    \* history variables (record what the operations did)
    inserted,            \* sensor id -> every reading ever passed to add_sensor_reading
    returned,            \* the list the last detect_anomalies call returned
    lastOp,              \* the operation the last step performed, and its inputs
    hist,                \* counts of what the collection passes have done
    detect_passes,       \* the number of _perform_anomaly_detection calls
    accepted,            \* every anomaly ever appended to the anomaly store
    result               \* the caller's query of the detector: its locals and its return value

vars == <<sensor_data, sensor_keys, detected_anomalies, network_graph,
          status, zone, position, config, is_running, stop_event, start_time,
          monitoring_thread, reading_history, alert_history, total_readings,
          total_anomalies, now, workers, caller, inserted, returned, lastOp, hist,
          detect_passes, accepted, result>>

histVars == <<hist, detect_passes>>

detectorVars == <<sensor_data, sensor_keys, detected_anomalies, network_graph, accepted>>
buildingVars == <<status, zone, position>>
lifeVars == <<is_running, stop_event, start_time, monitoring_thread>>
storeVars == <<reading_history, alert_history, total_readings, total_anomalies>>
threadVars == <<workers, caller>>

-----------------------------------------------------------------------------
(* Bounds of the model *)

WindowSize == 2          \* AnomalyDetector.window_size (default 50)
MinSamples == 2          \* AnomalyDetector.min_samples_for_detection (default 20)
MaxAdds == 4             \* add_sensor_reading calls in SpecBuffer
MaxStore == 2            \* detect_anomalies is called while the store is shorter
MaxThreads == 2          \* worker threads ever created
MaxTime == 1             \* the clock stops here
MaxSteps == 2            \* simulate_step calls in SpecMon
MaxAlerts == 2           \* _process_alerts is called while the alert store is shorter
MaxAnomalies == 2        \* length of the list given to _process_alerts in SpecAlerts
MaxPasses == 3           \* collection passes in SpecHistory
MaxDrawn == 2            \* length of the anomaly store drawn in SpecSummary
MaxHistorical == 3       \* length of the historical part of a window in SpecEnergy
MaxAligned == 2          \* length of a short buffer drawn in SpecAlign
SamplingInterval == 1    \* MonitoringConfig.sampling_interval (default 60 s)
AnomalyCheckInterval == 1 \* MonitoringConfig.anomaly_check_interval (default 300 s)

(* Program constants *)

DefaultWindowSize == 50          \* window_size: int = 50
DefaultMinSamples == 20          \* min_samples_for_detection: int = 20

RecentCount == 10        \* values[-10:]
TemporalMinReadings == 24
MinAlignedPairs == 10
AlignTolerance == 12     \* 60 seconds
ProximityRange == 20
JoinTimeout == 1         \* join(timeout=5)
ErrorPause == 1          \* time.sleep(5)

-----------------------------------------------------------------------------
(* Sets of the model *)

Sensors == {"s1", "s2"}
BuildingSensors == <<"s1", "s2">>      \* building.sensors, in insertion order
Zones == {"zA", "zB"}
NoZone == "None"
Positions == {0, 30}
Values == {0, 1, 2, 3, 4}
NoTime == -1
NoThread == 0
NoGraph == [present |-> FALSE, nodes |-> <<>>, edges |-> {}]

SensorTypeOf(s) == IF s = "s1" THEN "energy_power" ELSE "hvac_temperature"

Severities == {"low", "medium", "high", "critical"}

-----------------------------------------------------------------------------
(* Sequence helpers *)

Range(seq) == {seq[i] : i \in 1..Len(seq)}

RECURSIVE Concat(_)
Concat(seqs) == IF seqs = <<>> THEN <<>> ELSE Head(seqs) \o Concat(Tail(seqs))

Last(seq) == seq[Len(seq)]

Abs(x) == IF x < 0 THEN -x ELSE x
Min(a, b) == IF a < b THEN a ELSE b

-----------------------------------------------------------------------------
(* SeverityLevel: the enum's values are strings, and Python compares them   *)
(* character by character.  A value is modelled by its letters' positions   *)
(* in the alphabet.                                                         *)

SeverityValue(sev) ==
    CASE sev = "low"      -> <<12, 15, 23>>
      [] sev = "medium"   -> <<13, 5, 4, 9, 21, 13>>
      [] sev = "high"     -> <<8, 9, 7, 8>>
      [] sev = "critical" -> <<3, 18, 9, 20, 9, 3, 1, 12>>

RECURSIVE StrLess(_, _)
StrLess(a, b) ==
    IF a = <<>> THEN b # <<>>
    ELSE IF b = <<>> THEN FALSE
    ELSE IF Head(a) # Head(b) THEN Head(a) < Head(b)
    ELSE StrLess(Tail(a), Tail(b))

-----------------------------------------------------------------------------
(* AnomalyDetector.add_sensor_reading *)

Reading(s, v, ts) ==
    [timestamp |-> ts, value |-> v, sensor_type |-> SensorTypeOf(s), zone_id |-> zone[s]]

\* the eviction with pop() in place of pop(0)
AppendedBufferDroppingNewest(buf, reading) ==
    LET appended == Append(buf, reading)
    IN  IF Len(appended) > WindowSize THEN SubSeq(appended, 1, WindowSize) ELSE appended

\* the append and the eviction, for a detector constructed with window_size
AppendedBufferWith(buf, reading, window_size) ==
    LET appended == Append(buf, reading)
    IN  IF Len(appended) > window_size THEN Tail(appended) ELSE appended

AppendedBuffer(buf, reading) ==
    LET appended == Append(buf, reading)
    IN  IF Len(appended) > WindowSize THEN Tail(appended) ELSE appended

AddedKeys(keys, s) == IF s \in Range(keys) THEN keys ELSE Append(keys, s)

-----------------------------------------------------------------------------
(* Arithmetic helpers for the statistical rules *)

RECURSIVE SumSeq(_)
SumSeq(seq) == IF seq = <<>> THEN 0 ELSE Head(seq) + SumSeq(Tail(seq))

Squares(seq) == [i \in 1..Len(seq) |-> seq[i] * seq[i]]

RECURSIVE SqrtBetween(_, _, _)
SqrtBetween(n, lo, hi) ==
    IF lo >= hi THEN lo
    ELSE LET mid == (lo + hi + 1) \div 2
         IN  IF mid * mid <= n THEN SqrtBetween(n, mid, hi)
             ELSE SqrtBetween(n, lo, mid - 1)

\* the root of a 32-bit number is at most 46340
ISqrt(n) == SqrtBetween(n, 0, Min(n, 46340))

LastN(seq, n) == IF Len(seq) <= n THEN seq ELSE SubSeq(seq, Len(seq) - n + 1, Len(seq))
AllButLastN(seq, n) == IF Len(seq) <= n THEN <<>> ELSE SubSeq(seq, 1, Len(seq) - n)

ValuesOf(readings) == [i \in 1..Len(readings) |-> readings[i].value]

\* n^2 times the population variance of seq (numpy.std, ddof = 0)
VarNum(seq) == Len(seq) * SumSeq(Squares(seq)) - SumSeq(seq) * SumSeq(seq)

-----------------------------------------------------------------------------
(* Anomaly and AnomalyDetector._calculate_severity *)

Anomaly(s, atype, sev, conf, reading) ==
    [sensor_id |-> s, anomaly_type |-> atype, severity |-> sev,
     confidence |-> conf, timestamp |-> reading.timestamp, value |-> reading.value]

CalculateSeverity(confidence) ==
    IF confidence > 800 THEN "critical"
    ELSE IF confidence > 600 THEN "high"
    ELSE IF confidence > 400 THEN "medium"
    ELSE "low"

-----------------------------------------------------------------------------
(* AnomalyDetector._detect_isolation_forest_anomalies.                      *)
(* The fitted model is sklearn's; with random_state = 42 its answer is a    *)
(* function of the window.  The model takes that function from the reading's*)
(* value: 1..4 are outliers of growing score, every other value is an       *)
(* inlier.                                                                  *)

IsoPrediction(values, i) == IF values[i] \in 1..4 THEN -1 ELSE 1

IsoScore(values, i) ==
    CASE values[i] = 1 -> -100
      [] values[i] = 2 -> -250
      [] values[i] = 3 -> -350
      [] values[i] = 4 -> -450
      [] OTHER -> 50

IsoConfidence(score) == Min(1000, (Abs(score) * 1000) \div 500)

IsoAnomalyAt(s, readings, i) ==
    IF IsoPrediction(ValuesOf(readings), i) = -1
    THEN LET confidence == IsoConfidence(IsoScore(ValuesOf(readings), i))
         IN  <<Anomaly(s, "unknown", CalculateSeverity(confidence), confidence, readings[i])>>
    ELSE <<>>

DetectIsolationForestAnomalies(sd, s) ==
    Concat([i \in 1..Len(sd[s]) |-> IsoAnomalyAt(s, sd[s], i)])

-----------------------------------------------------------------------------
(* AnomalyDetector._is_energy_sensor, _detect_energy_anomalies *)

IsEnergySensor(sensor_type) ==
    sensor_type \in {"energy_power", "energy_voltage", "energy_current", "energy_total"}

\* |z| > k, for z = (mean(recent) - mean(historical)) / std(historical):
\* with D = sum(recent) * n - 10 * sum(historical), z = D / (10 * sqrt(VarNum)).
EnergyD(values) ==
    SumSeq(LastN(values, RecentCount)) * Len(AllButLastN(values, RecentCount))
        - RecentCount * SumSeq(AllButLastN(values, RecentCount))

\* the comparison with >= in place of >
EnergyZAtLeast(values, k) ==
    EnergyD(values) * EnergyD(values)
        >= RecentCount * RecentCount * k * k * VarNum(AllButLastN(values, RecentCount))

EnergyZExceeds(values, k) ==
    EnergyD(values) * EnergyD(values)
        > RecentCount * RecentCount * k * k * VarNum(AllButLastN(values, RecentCount))

\* |z| in thousandths, computed within 32 bits
EnergyZMilli(values) ==
    LET d == Abs(EnergyD(values))
        v == VarNum(AllButLastN(values, RecentCount))
        root100 == IF v <= 200000 THEN ISqrt(v * 10000) ELSE 100 * ISqrt(v)
    IN  IF d <= 20000
        THEN (d * 100000) \div (RecentCount * root100)
        ELSE ((d \div RecentCount) * 100000) \div root100

DetectEnergyAnomalies(sd, s) ==
    LET readings == sd[s]
        values == ValuesOf(readings)
    IN  IF ~IsEnergySensor(Last(readings).sensor_type) THEN <<>>
        ELSE IF Len(values) < RecentCount THEN <<>>
        \* with exactly 10 values historical_mean is recent_mean: z = 0
        ELSE IF Len(values) = RecentCount THEN <<>>
        ELSE IF VarNum(AllButLastN(values, RecentCount)) <= 0 THEN <<>>
        ELSE IF ~EnergyZExceeds(values, 2) THEN <<>>
        ELSE <<Anomaly(s, "energy_spike",
                       IF EnergyZExceeds(values, 3) THEN "high" ELSE "medium",
                       Min(1000, EnergyZMilli(values) \div 3), Last(readings))>>

-----------------------------------------------------------------------------
(* AnomalyDetector._detect_temporal_anomalies *)

TicksPerHour == 720

HourOf(ts) == (ts \div TicksPerHour) % 24

HourBucket(readings) ==
    ValuesOf(SelectSeq(readings,
                       LAMBDA r : HourOf(r.timestamp) = HourOf(Last(readings).timestamp)))

\* deviation > k/2, for deviation = |value - mean| / std (pandas std, ddof = 1)
TemporalDevNum(readings) ==
    LET b == HourBucket(readings)
        d == Len(b) * Last(readings).value - SumSeq(b)
    IN  d * d * (Len(b) - 1)

TemporalDevExceedsHalf(readings, k) ==
    4 * TemporalDevNum(readings) > k * k * Len(HourBucket(readings)) * VarNum(HourBucket(readings))

\* (num * 1000000) \div den, computed within 32 bits (den below 2,000,000
\* and the quotient num \div den below 2,000)
MillionTimesRatio(num, den) ==
    LET r == num % den
    IN  (num \div den) * 1000000 + ((r * 1000) \div den) * 1000
            + (((r * 1000) % den) * 1000) \div den

\* the deviation in thousandths; beyond 44 it is given to the unit
TemporalDevMilli(readings) ==
    LET num == TemporalDevNum(readings)
        den == Len(HourBucket(readings)) * VarNum(HourBucket(readings))
    IN  IF num \div den >= 2000 THEN 1000 * ISqrt(num \div den)
        ELSE ISqrt(MillionTimesRatio(num, den))

\* the check without its minimum of 24 readings
DetectTemporalWithoutMinimum(sd, s) ==
    LET readings == sd[s]
    IN  IF Len(HourBucket(readings)) < 2 \/ VarNum(HourBucket(readings)) <= 0 THEN <<>>
        ELSE IF ~TemporalDevExceedsHalf(readings, 5) THEN <<>>
        ELSE <<Anomaly(s, "seasonal_deviation",
                       IF TemporalDevExceedsHalf(readings, 8) THEN "high" ELSE "medium",
                       Min(1000, TemporalDevMilli(readings) \div 4), Last(readings))>>

DetectTemporalAnomalies(sd, s) ==
    LET readings == sd[s]
    IN  IF Len(readings) < TemporalMinReadings THEN <<>>
        \* a bucket of one sample has std NaN, which fillna(0) turns into 0
        ELSE IF Len(HourBucket(readings)) < 2 \/ VarNum(HourBucket(readings)) <= 0 THEN <<>>
        ELSE IF ~TemporalDevExceedsHalf(readings, 5) THEN <<>>
        ELSE <<Anomaly(s, "seasonal_deviation",
                       IF TemporalDevExceedsHalf(readings, 8) THEN "high" ELSE "medium",
                       Min(1000, TemporalDevMilli(readings) \div 4), Last(readings))>>

-----------------------------------------------------------------------------
(* AnomalyDetector._align_sensor_readings, _analyze_sensor_correlation,      *)
(* _detect_correlation_anomalies                                            *)

\* {r["timestamp"]: r["value"] for r in readings}: one item per distinct
\* timestamp, at the place of its first reading, with its last reading's value
DictItems(readings) ==
    LET firsts == {i \in 1..Len(readings) :
                      \A j \in 1..(i - 1) : readings[j].timestamp # readings[i].timestamp}
        lastOf(i) == CHOOSE j \in 1..Len(readings) :
                        /\ readings[j].timestamp = readings[i].timestamp
                        /\ \A k \in (j + 1)..Len(readings) :
                              readings[k].timestamp # readings[i].timestamp
        item(i) == IF i \in firsts
                   THEN <<[timestamp |-> readings[i].timestamp,
                           value |-> readings[lastOf(i)].value]>>
                   ELSE <<>>
    IN  Concat([i \in 1..Len(readings) |-> item(i)])

\* the pair formed with the nearest timestamp within the tolerance
AlignedPairNearest(item1, items2) ==
    LET near == {j \in 1..Len(items2) :
                    Abs(item1.timestamp - items2[j].timestamp) <= AlignTolerance}
        dist(j) == Abs(item1.timestamp - items2[j].timestamp)
    IN  IF near = {} THEN <<>>
        ELSE LET best == CHOOSE j \in near :
                            \A k \in near : dist(j) < dist(k) \/ (dist(j) = dist(k) /\ j <= k)
             IN  <<<<item1.value, items2[best].value>>>>

AlignedPairFor(item1, items2) ==
    LET near == {j \in 1..Len(items2) :
                    Abs(item1.timestamp - items2[j].timestamp) <= AlignTolerance}
    IN  IF near = {} THEN <<>>
        ELSE LET first == CHOOSE j \in near : \A k \in near : j <= k
             IN  <<<<item1.value, items2[first].value>>>>

AlignSensorReadings(readings1, readings2) ==
    LET items1 == DictItems(readings1)
        items2 == DictItems(readings2)
    IN  Concat([i \in 1..Len(items1) |-> AlignedPairFor(items1[i], items2)])

\* Pearson's correlation of the pairs in thousandths; NaN when a variance is 0
CorrDefined(pairs) ==
    LET xs == [i \in 1..Len(pairs) |-> pairs[i][1]]
        ys == [i \in 1..Len(pairs) |-> pairs[i][2]]
    IN  VarNum(xs) > 0 /\ VarNum(ys) > 0

CorrMilli(pairs) ==
    LET xs == [i \in 1..Len(pairs) |-> pairs[i][1]]
        ys == [i \in 1..Len(pairs) |-> pairs[i][2]]
        xy == [i \in 1..Len(pairs) |-> pairs[i][1] * pairs[i][2]]
        cov == Len(pairs) * SumSeq(xy) - SumSeq(xs) * SumSeq(ys)
        \* the root and the quotient, computed within 32 bits
        den == IF VarNum(xs) <= 2147483647 \div VarNum(ys)
               THEN ISqrt(VarNum(xs) * VarNum(ys))
               ELSE ISqrt(VarNum(xs)) * ISqrt(VarNum(ys))
        mag == IF Abs(cov) <= 2000000
               THEN (Abs(cov) * 1000) \div den
               ELSE Abs(cov) \div (den \div 1000)
    IN  IF cov < 0 THEN -mag ELSE mag

AnalyzeSensorCorrelation(sd, s1, s2) ==
    LET common == AlignSensorReadings(sd[s1], sd[s2])
        recent == LastN(common, RecentCount)
    IN  IF Len(common) < MinAlignedPairs THEN <<>>
        ELSE IF ~CorrDefined(common) THEN <<>>
        ELSE IF ~CorrDefined(recent) THEN <<>>
        ELSE IF Abs(CorrMilli(common) - CorrMilli(recent)) <= 500 THEN <<>>
        ELSE <<Anomaly(s1, "network_isolation", "medium",
                       Abs(CorrMilli(common) - CorrMilli(recent)), Last(sd[s1]))>>

\* for a detector constructed with min_samples_for_detection = min_samples
CorrelatedSensorsWith(sd, keys, s, min_samples) ==
    LET target_zone == Last(sd[s]).zone_id
    IN  SelectSeq(keys, LAMBDA other :
            /\ other # s
            /\ Len(sd[other]) >= min_samples
            /\ target_zone # NoZone
            /\ Last(sd[other]).zone_id = target_zone)

DetectCorrelationAnomaliesWith(sd, keys, s, min_samples) ==
    IF Len(keys) < 2 THEN <<>>
    ELSE LET correlated == CorrelatedSensorsWith(sd, keys, s, min_samples)
         IN  Concat([i \in 1..Len(correlated) |->
                        AnalyzeSensorCorrelation(sd, s, correlated[i])])

CorrelatedSensors(sd, keys, s) == CorrelatedSensorsWith(sd, keys, s, MinSamples)

DetectCorrelationAnomalies(sd, keys, s) ==
    DetectCorrelationAnomaliesWith(sd, keys, s, MinSamples)

-----------------------------------------------------------------------------
(* Building.get_sensor_network_graph, AnomalyDetector.update_network_graph,  *)
(* AnomalyDetector._detect_network_anomalies                                *)

Distance(p1, p2) == Abs(p1 - p2)

BuildingGraph(zn, pos) ==
    [present |-> TRUE,
     nodes |-> BuildingSensors,
     edges |-> {pair \in Sensors \X Sensors :
                   /\ pair[1] # pair[2]
                   /\ \/ zn[pair[1]] = zn[pair[2]]
                      \/ Distance(pos[pair[1]], pos[pair[2]]) < ProximityRange}]

Degree(graph, node) == Cardinality({pair \in graph.edges : pair[1] = node})

\* "if self.network_graph": a graph is true when it has a node
GraphTruthy(graph) == graph.present /\ Len(graph.nodes) > 0

IsolatedNodes(graph) == SelectSeq(graph.nodes, LAMBDA node : Degree(graph, node) = 0)

\* the anomaly taken from the sensor's oldest stored reading
NetworkAnomalyForOldest(sd, keys, s) ==
    IF s \in Range(keys) /\ sd[s] # <<>>
    THEN <<Anomaly(s, "network_isolation", "high", 1000, Head(sd[s]))>>
    ELSE <<>>

NetworkAnomalyFor(sd, keys, s) ==
    IF s \in Range(keys) /\ sd[s] # <<>>
    THEN <<Anomaly(s, "network_isolation", "high", 1000, Last(sd[s]))>>
    ELSE <<>>

DetectNetworkAnomalies(sd, keys, graph) ==
    IF ~GraphTruthy(graph) THEN <<>>
    ELSE LET isolated == IsolatedNodes(graph)
         IN  Concat([i \in 1..Len(isolated) |-> NetworkAnomalyFor(sd, keys, isolated[i])])

-----------------------------------------------------------------------------
(* AnomalyDetector.detect_anomalies *)

\* for a detector constructed with min_samples_for_detection = min_samples
DetectForSensorWith(sd, keys, s, min_samples) ==
    IF Len(sd[s]) < min_samples THEN <<>>
    ELSE DetectIsolationForestAnomalies(sd, s)
            \o DetectEnergyAnomalies(sd, s)
            \o DetectTemporalAnomalies(sd, s)
            \o DetectCorrelationAnomaliesWith(sd, keys, s, min_samples)

FoundAnomaliesWith(sd, keys, graph, sensor_ids, min_samples) ==
    Concat([i \in 1..Len(sensor_ids) |->
               DetectForSensorWith(sd, keys, sensor_ids[i], min_samples)])
        \o DetectNetworkAnomalies(sd, keys, graph)

DetectForSensor(sd, keys, s) == DetectForSensorWith(sd, keys, s, MinSamples)

\* the anomalies of one call, in the order they are found
FoundAnomalies(sd, keys, graph, sensor_ids) ==
    FoundAnomaliesWith(sd, keys, graph, sensor_ids, MinSamples)

\* key = (x.severity.value, x.timestamp), compared as Python compares tuples
KeyLess(a, b) ==
    \/ StrLess(SeverityValue(a.severity), SeverityValue(b.severity))
    \/ /\ a.severity = b.severity
       /\ a.timestamp < b.timestamp

\* list.sort(reverse=True) is stable: x goes after every element whose key is
\* not below its own
InsertDescending(sorted, x) ==
    LET below == {i \in 1..Len(sorted) : KeyLess(sorted[i], x)}
        at == IF below = {} THEN Len(sorted) + 1
              ELSE CHOOSE i \in below : \A j \in below : i <= j
    IN  SubSeq(sorted, 1, at - 1) \o <<x>> \o SubSeq(sorted, at, Len(sorted))

RECURSIVE SortDescendingFrom(_, _)
SortDescendingFrom(sorted, rest) ==
    IF rest = <<>> THEN sorted
    ELSE SortDescendingFrom(InsertDescending(sorted, Head(rest)), Tail(rest))

SortedBySeverityAndTimestamp(anomalies) == SortDescendingFrom(<<>>, anomalies)

-----------------------------------------------------------------------------
(* The state after construction: AnomalyDetector.__init__, Building.__init__ *)
(* with its sensors added, MonitoringSystem.__init__                        *)

\* where the two sensors are: same zone; two zones, in range; two zones, out
\* of range; no zone at all (None = None), out of range
SameZone ==
    [zone |-> [s \in Sensors |-> "zA"],
     position |-> [s \in Sensors |-> IF s = "s1" THEN 0 ELSE 30]]
InRange ==
    [zone |-> [s \in Sensors |-> IF s = "s1" THEN "zA" ELSE "zB"],
     position |-> [s \in Sensors |-> 0]]
Apart ==
    [zone |-> [s \in Sensors |-> IF s = "s1" THEN "zA" ELSE "zB"],
     position |-> [s \in Sensors |-> IF s = "s1" THEN 0 ELSE 30]]
Unzoned ==
    [zone |-> [s \in Sensors |-> NoZone],
     position |-> [s \in Sensors |-> IF s = "s1" THEN 0 ELSE 30]]

Topologies == {SameZone, InRange, Apart, Unzoned}

DefaultConfig ==
    [auto_start |-> TRUE, save_history |-> TRUE, enable_alerts |-> TRUE,
     alert_threshold |-> "medium"]

Threads == 1..MaxThreads

NoOp == [op |-> "init", arg |-> <<>>]
NoResult == [op |-> "none"]

InitDetector ==
    /\ sensor_data = [s \in Sensors |-> <<>>]
    /\ sensor_keys = <<>>
    /\ detected_anomalies = <<>>
    /\ accepted = <<>>
    /\ network_graph = NoGraph
    /\ inserted = [s \in Sensors |-> <<>>]
    /\ returned = <<>>

InitBuilding(topologies) ==
    /\ status = [s \in Sensors |-> "active"]
    /\ \E topology \in topologies :
          /\ zone = topology.zone
          /\ position = topology.position

InitSystem ==
    /\ is_running = FALSE
    /\ monitoring_thread = NoThread
    /\ stop_event = FALSE
    /\ reading_history = <<>>
    /\ alert_history = <<>>
    /\ start_time = NoTime
    /\ total_readings = 0
    /\ total_anomalies = 0
    /\ now = 0
    /\ workers = [t \in Threads |->
                      [pc |-> "unborn", last_anomaly_check |-> NoTime, since |-> NoTime,
                       began |-> NoTime, detected |-> NoTime]]
    /\ caller = [pc |-> "idle", join_start |-> NoTime]
    /\ lastOp = NoOp
    /\ hist = [collect_passes |-> 0, active_sum |-> 0, failures |-> 0, snapshots |-> <<>>]
    /\ detect_passes = 0
    /\ result = NoResult

-----------------------------------------------------------------------------
(* AnomalyDetector's operations, called directly *)

AddSensorReading(s, v, ts) ==
    /\ sensor_keys' = AddedKeys(sensor_keys, s)
    /\ sensor_data' = [sensor_data EXCEPT ![s] = AppendedBuffer(@, Reading(s, v, ts))]
    /\ inserted' = [inserted EXCEPT ![s] = Append(@, Reading(s, v, ts))]

UpdateNetworkGraph ==
    network_graph' = BuildingGraph(zone, position)

\* detect_anomalies(sensor_ids): store what was found, return it sorted
DetectAnomalies(sd, keys, sensor_ids, graph) ==
    LET found == FoundAnomalies(sd, keys, graph, sensor_ids)
    IN  /\ detected_anomalies' = detected_anomalies \o found
        /\ accepted' = accepted \o found
        /\ returned' = SortedBySeverityAndTimestamp(found)

TotalAdds == SumSeq([i \in 1..Len(BuildingSensors) |-> Len(inserted[BuildingSensors[i]])])

CallAddSensorReading ==
    /\ TotalAdds < MaxAdds
    /\ \E s \in Sensors, v \in {0, 1}, ts \in {now, now + 1} :
          /\ AddSensorReading(s, v, ts)
          /\ now' = ts
          /\ lastOp' = [op |-> "add_sensor_reading", arg |-> <<s>>]
    /\ UNCHANGED <<detected_anomalies, accepted, network_graph, returned, buildingVars, config, result,
                   lifeVars, storeVars, threadVars, histVars>>

CallUpdateNetworkGraph ==
    /\ UpdateNetworkGraph
    /\ lastOp' = [op |-> "update_network_graph", arg |-> <<>>]
    /\ UNCHANGED <<sensor_data, sensor_keys, detected_anomalies, accepted, inserted, returned,
                   buildingVars, config, result, lifeVars, storeVars, threadVars, now, histVars>>

CallDetectAnomalies ==
    /\ Len(detected_anomalies) < MaxStore
    /\ DetectAnomalies(sensor_data, sensor_keys, sensor_keys, network_graph)
    /\ lastOp' = [op |-> "detect_anomalies", arg |-> <<>>]
    /\ UNCHANGED <<sensor_data, sensor_keys, network_graph, inserted,
                   buildingVars, config, result, lifeVars, storeVars, threadVars, now, histVars>>

-----------------------------------------------------------------------------
(* SpecBuffer: add_sensor_reading called any number of times *)

InitBuffer ==
    /\ InitDetector
    /\ InitBuilding({SameZone})
    /\ InitSystem
    /\ config = DefaultConfig

NextBuffer == CallAddSensorReading

SpecBuffer == InitBuffer /\ [][NextBuffer]_vars

-----------------------------------------------------------------------------
(* SpecDetect: detect_anomalies on any buffers and any graph.  The buffers  *)
(* are the ones add_sensor_reading leaves: at most WindowSize readings a    *)
(* sensor, the i-th taken at time i.                                        *)

BufferOf(s, vals) == [i \in 1..Len(vals) |-> Reading(s, vals[i], i)]

ValueSeqs == UNION {[1..n -> Values] : n \in 0..WindowSize}

InitDetect ==
    /\ InitBuilding(Topologies)
    /\ InitSystem
    /\ config = DefaultConfig
    /\ \E vals \in [Sensors -> ValueSeqs] :
          /\ sensor_data = [s \in Sensors |-> BufferOf(s, vals[s])]
          /\ inserted = sensor_data
          /\ \E keys \in {<<"s1", "s2">>, <<"s2", "s1">>} :
                sensor_keys = SelectSeq(keys, LAMBDA s : vals[s] # <<>>)
    /\ detected_anomalies = <<>>
    /\ accepted = <<>>
    /\ network_graph = NoGraph
    /\ returned = <<>>

NextDetect ==
    \/ CallUpdateNetworkGraph
    \/ CallDetectAnomalies

SpecDetect == InitDetect /\ [][NextDetect]_vars

-----------------------------------------------------------------------------
(* MonitoringSystem._process_alerts *)

SeverityOrderGet(key, default) ==
    CASE key = "low" -> 0
      [] key = "medium" -> 1
      [] key = "high" -> 2
      [] key = "critical" -> 3
      [] OTHER -> default

AlertOf(anomaly, ts) ==
    [timestamp |-> ts, sensor_id |-> anomaly.sensor_id,
     anomaly_type |-> anomaly.anomaly_type, severity |-> anomaly.severity,
     confidence |-> anomaly.confidence, value |-> anomaly.value]

\* the filter with > in place of >=
AlertsAboveThreshold(anomalies, alert_threshold, ts) ==
    LET threshold_level == SeverityOrderGet(alert_threshold, 1)
        alert(i) == IF SeverityOrderGet(anomalies[i].severity, 0) > threshold_level
                    THEN <<AlertOf(anomalies[i], ts)>>
                    ELSE <<>>
    IN  Concat([i \in 1..Len(anomalies) |-> alert(i)])

AlertsFor(anomalies, alert_threshold, ts) ==
    LET threshold_level == SeverityOrderGet(alert_threshold, 1)
        alert(i) == IF SeverityOrderGet(anomalies[i].severity, 0) >= threshold_level
                    THEN <<AlertOf(anomalies[i], ts)>>
                    ELSE <<>>
    IN  Concat([i \in 1..Len(anomalies) |-> alert(i)])

ProcessAlerts(anomalies) ==
    alert_history' = alert_history \o AlertsFor(anomalies, config.alert_threshold, now)

-----------------------------------------------------------------------------
(* MonitoringSystem._collect_sensor_readings.  outcome[s] is what           *)
(* take_reading does for sensor s if it is called: a value, or the          *)
(* simulated failure (the sensor goes to ERROR and RuntimeError is raised). *)

MaxHistorySize == 2      \* MonitoringConfig.max_history_size (default 10000)

Outcomes(vals) == {[ok |-> TRUE, value |-> v] : v \in vals} \cup {[ok |-> FALSE, value |-> 0]}

IsActive(st, s) == st[s] = "active"

WasRead(st, outcome, s) == IsActive(st, s) /\ outcome[s].ok
HasFailed(st, outcome, s) == IsActive(st, s) /\ ~outcome[s].ok

RECURSIVE KeysAfterPass(_, _, _, _)
KeysAfterPass(keys, st, outcome, todo) ==
    IF todo = <<>> THEN keys
    ELSE KeysAfterPass(IF WasRead(st, outcome, Head(todo)) THEN AddedKeys(keys, Head(todo))
                       ELSE keys,
                       st, outcome, Tail(todo))

\* the failure leaving the sensor's status as it was
StatusKeptOnFailure(st, outcome) == st

StatusAfterPass(st, outcome) ==
    [s \in Sensors |-> IF HasFailed(st, outcome, s) THEN "error" ELSE st[s]]

SnapshotEntry(st, outcome, s) ==
    IF WasRead(st, outcome, s)
    THEN [kind |-> "value", value |-> outcome[s].value]
    ELSE IF HasFailed(st, outcome, s)
    THEN [kind |-> "error", value |-> 0]
    ELSE [kind |-> "absent", value |-> 0]

Snapshot(st, outcome, ts) ==
    [timestamp |-> ts,
     readings |-> [s \in Sensors |-> SnapshotEntry(st, outcome, s)],
     active_sensors |-> Cardinality({s \in Sensors : IsActive(StatusAfterPass(st, outcome), s)}),
     total_sensors |-> Len(BuildingSensors)]

\* the eviction with pop() in place of pop(0)
HistoryDroppingNewest(history, snapshot) ==
    LET appended == Append(history, snapshot)
    IN  IF Len(appended) > MaxHistorySize THEN SubSeq(appended, 1, MaxHistorySize)
        ELSE appended

HistoryAfterPass(history, snapshot) ==
    LET appended == Append(history, snapshot)
    IN  IF Len(appended) > MaxHistorySize THEN Tail(appended) ELSE appended

\* the pass without the per-sensor try/except: the first failure ends it
FailedBefore(st, outcome, s) ==
    \E i, j \in 1..Len(BuildingSensors) :
        /\ i < j
        /\ BuildingSensors[j] = s
        /\ HasFailed(st, outcome, BuildingSensors[i])

CollectAbortingOnFailure(outcome) ==
    LET read(s) == WasRead(status, outcome, s) /\ ~FailedBefore(status, outcome, s)
        aborted == \E s \in Sensors : HasFailed(status, outcome, s)
    IN  /\ sensor_data' = [s \in Sensors |->
              IF read(s)
              THEN AppendedBuffer(sensor_data[s], Reading(s, outcome[s].value, now))
              ELSE sensor_data[s]]
        /\ inserted' = [s \in Sensors |->
              IF read(s) THEN Append(inserted[s], Reading(s, outcome[s].value, now))
              ELSE inserted[s]]
        /\ sensor_keys' = KeysAfterPass(sensor_keys, status,
                                        [s \in Sensors |-> IF read(s) THEN outcome[s]
                                                           ELSE [ok |-> FALSE, value |-> 0]],
                                        BuildingSensors)
        /\ status' = [s \in Sensors |->
              IF HasFailed(status, outcome, s) /\ ~FailedBefore(status, outcome, s)
              THEN "error" ELSE status[s]]
        /\ total_readings' = total_readings + Cardinality({s \in Sensors : read(s)})
        /\ reading_history' = IF config.save_history /\ ~aborted
                              THEN HistoryAfterPass(reading_history,
                                                    Snapshot(status, outcome, now))
                              ELSE reading_history
        /\ hist' = [collect_passes |-> hist.collect_passes + 1,
                    active_sum |-> hist.active_sum
                        + Cardinality({s \in Sensors : IsActive(status, s)}),
                    failures |-> hist.failures
                        + Cardinality({s \in Sensors : HasFailed(status, outcome, s)}),
                    snapshots |-> IF config.save_history /\ ~aborted
                                  THEN Append(hist.snapshots, Snapshot(status, outcome, now))
                                  ELSE hist.snapshots]

\* the pass counting itself, not its readings, in total_readings
CollectCountingPasses(outcome) ==
    /\ sensor_data' = [s \in Sensors |->
          IF WasRead(status, outcome, s)
          THEN AppendedBuffer(sensor_data[s], Reading(s, outcome[s].value, now))
          ELSE sensor_data[s]]
    /\ inserted' = [s \in Sensors |->
          IF WasRead(status, outcome, s)
          THEN Append(inserted[s], Reading(s, outcome[s].value, now))
          ELSE inserted[s]]
    /\ sensor_keys' = KeysAfterPass(sensor_keys, status, outcome, BuildingSensors)
    /\ status' = StatusAfterPass(status, outcome)
    /\ total_readings' = total_readings + 1
    /\ reading_history' = IF config.save_history
                          THEN HistoryAfterPass(reading_history, Snapshot(status, outcome, now))
                          ELSE reading_history
    /\ hist' = [collect_passes |-> hist.collect_passes + 1,
                active_sum |-> hist.active_sum
                    + Cardinality({s \in Sensors : IsActive(status, s)}),
                failures |-> hist.failures
                    + Cardinality({s \in Sensors : HasFailed(status, outcome, s)}),
                snapshots |-> IF config.save_history
                              THEN Append(hist.snapshots, Snapshot(status, outcome, now))
                              ELSE hist.snapshots]

CollectSensorReadings(outcome) ==
    /\ sensor_data' = [s \in Sensors |->
          IF WasRead(status, outcome, s)
          THEN AppendedBuffer(sensor_data[s], Reading(s, outcome[s].value, now))
          ELSE sensor_data[s]]
    /\ inserted' = [s \in Sensors |->
          IF WasRead(status, outcome, s)
          THEN Append(inserted[s], Reading(s, outcome[s].value, now))
          ELSE inserted[s]]
    /\ sensor_keys' = KeysAfterPass(sensor_keys, status, outcome, BuildingSensors)
    /\ status' = StatusAfterPass(status, outcome)
    /\ total_readings' = total_readings + Cardinality({s \in Sensors : WasRead(status, outcome, s)})
    /\ reading_history' = IF config.save_history
                          THEN HistoryAfterPass(reading_history, Snapshot(status, outcome, now))
                          ELSE reading_history
    /\ hist' = [collect_passes |-> hist.collect_passes + 1,
                active_sum |-> hist.active_sum
                    + Cardinality({s \in Sensors : IsActive(status, s)}),
                failures |-> hist.failures
                    + Cardinality({s \in Sensors : HasFailed(status, outcome, s)}),
                snapshots |-> IF config.save_history
                              THEN Append(hist.snapshots, Snapshot(status, outcome, now))
                              ELSE hist.snapshots]

-----------------------------------------------------------------------------
(* MonitoringSystem._perform_anomaly_detection, on the buffers sd *)

\* the detection counting its passes, not the anomalies, in total_anomalies
PerformDetectionCountingPasses(sd, keys) ==
    LET graph == BuildingGraph(zone, position)
        anomalies == SortedBySeverityAndTimestamp(FoundAnomalies(sd, keys, graph, keys))
    IN  /\ network_graph' = graph
        /\ DetectAnomalies(sd, keys, keys, graph)
        /\ total_anomalies' = total_anomalies + 1
        /\ detect_passes' = detect_passes + 1
        /\ IF anomalies # <<>> /\ config.enable_alerts
           THEN ProcessAlerts(anomalies)
           ELSE alert_history' = alert_history

PerformAnomalyDetection(sd, keys) ==
    LET graph == BuildingGraph(zone, position)
        anomalies == SortedBySeverityAndTimestamp(FoundAnomalies(sd, keys, graph, keys))
    IN  /\ network_graph' = graph
        /\ DetectAnomalies(sd, keys, keys, graph)
        /\ total_anomalies' = total_anomalies + Len(anomalies)
        /\ detect_passes' = detect_passes + 1
        /\ IF anomalies # <<>> /\ config.enable_alerts
           THEN ProcessAlerts(anomalies)
           ELSE alert_history' = alert_history

-----------------------------------------------------------------------------
(* MonitoringSystem.start_monitoring, stop_monitoring *)

IsAlive(t) == t # NoThread /\ workers[t].pc \notin {"unborn", "dead"}

Unborn == {t \in Threads : workers[t].pc = "unborn"}

\* Thread(target=self._monitoring_loop, daemon=True).start()
SpawnWorker ==
    LET t == CHOOSE u \in Unborn : \A w \in Unborn : u <= w
    IN  /\ monitoring_thread' = t
        /\ workers' = [workers EXCEPT ![t].pc = "started"]

StartMonitoringUnguarded ==
    /\ is_running' = TRUE
    /\ start_time' = now
    /\ stop_event' = FALSE
    /\ IF config.auto_start
       THEN SpawnWorker
       ELSE UNCHANGED <<monitoring_thread, workers>>

StartMonitoring ==
    IF is_running
    THEN UNCHANGED <<is_running, start_time, stop_event, monitoring_thread, workers>>
    ELSE /\ is_running' = TRUE
         /\ start_time' = now
         /\ stop_event' = FALSE
         /\ IF config.auto_start
            THEN SpawnWorker
            ELSE UNCHANGED <<monitoring_thread, workers>>

\* stop_monitoring up to its join: the caller waits in join(timeout=5) when
\* the worker thread is alive, and has returned otherwise
StopMonitoringKeepsRunning ==
    IF ~is_running
    THEN UNCHANGED <<is_running, stop_event, caller>>
    ELSE /\ is_running' = is_running
         /\ stop_event' = TRUE
         /\ caller' = IF IsAlive(monitoring_thread)
                      THEN [pc |-> "joining", join_start |-> now]
                      ELSE caller

StopMonitoring ==
    IF ~is_running
    THEN UNCHANGED <<is_running, stop_event, caller>>
    ELSE /\ is_running' = FALSE
         /\ stop_event' = TRUE
         /\ caller' = IF IsAlive(monitoring_thread)
                      THEN [pc |-> "joining", join_start |-> now]
                      ELSE caller

\* join(timeout) returns when the thread has ended or the timeout has passed
JoinMayReturn ==
    \/ ~IsAlive(monitoring_thread)
    \/ now - caller.join_start >= JoinTimeout

CallStartMonitoring ==
    /\ caller.pc = "idle"
    /\ config.auto_start => Unborn # {}
    /\ StartMonitoring
    /\ lastOp' = [op |-> "start_monitoring", arg |-> <<is_running>>]
    /\ UNCHANGED <<detectorVars, buildingVars, config, result, storeVars, caller, now,
                   inserted, returned, histVars>>

CallStopMonitoring ==
    /\ caller.pc = "idle"
    /\ StopMonitoring
    /\ lastOp' = [op |-> IF caller'.pc = "joining" THEN "stop_monitoring_join"
                         ELSE "stop_monitoring",
                  arg |-> <<is_running, 0>>]
    /\ UNCHANGED <<detectorVars, buildingVars, config, result, storeVars, start_time,
                   monitoring_thread, workers, now, inserted, returned, histVars>>

JoinReturn ==
    /\ caller.pc = "joining"
    /\ JoinMayReturn
    /\ caller' = [pc |-> "idle", join_start |-> NoTime]
    /\ lastOp' = [op |-> "stop_monitoring", arg |-> <<TRUE, now - caller.join_start>>]
    /\ UNCHANGED <<detectorVars, buildingVars, config, result, storeVars, lifeVars, workers, now,
                   inserted, returned, histVars>>

-----------------------------------------------------------------------------
(* MonitoringSystem.simulate_step *)

SimulateStepOnSchedule(outcome) ==
    /\ start_time' = IF ~is_running THEN now ELSE start_time
    /\ CollectSensorReadings(outcome)
    /\ IF start_time # NoTime /\ now - start_time >= AnomalyCheckInterval
       THEN PerformAnomalyDetection(sensor_data', sensor_keys')
       ELSE UNCHANGED <<network_graph, detected_anomalies, accepted, returned, total_anomalies,
                        alert_history, detect_passes>>

SimulateStep(outcome) ==
    /\ start_time' = IF ~is_running THEN now ELSE start_time
    /\ CollectSensorReadings(outcome)
    /\ PerformAnomalyDetection(sensor_data', sensor_keys')

CallSimulateStep ==
    /\ caller.pc = "idle"
    /\ hist.collect_passes < MaxSteps
    /\ \E outcome \in [Sensors -> Outcomes({0, 3})] :
          /\ outcome["s2"].value = 0
          /\ \A s \in Sensors : ~IsActive(status, s) => outcome[s] = [ok |-> TRUE, value |-> 0]
          /\ SimulateStep(outcome)
          /\ lastOp' = [op |-> "simulate_step", arg |-> <<outcome>>]
    /\ UNCHANGED <<zone, position, config, result, is_running, stop_event, monitoring_thread,
                   threadVars, now>>

-----------------------------------------------------------------------------
(* BaseSensor.set_maintenance_mode, reset *)

SetMaintenanceMode(s, maintenance) ==
    status' = [status EXCEPT ![s] = IF maintenance THEN "maintenance" ELSE "active"]

ResetSensor(s) ==
    status' = [status EXCEPT ![s] = "active"]

CallSetMaintenanceMode ==
    /\ caller.pc = "idle"
    /\ \E s \in Sensors, maintenance \in BOOLEAN :
          /\ SetMaintenanceMode(s, maintenance)
          /\ lastOp' = [op |-> "sensor_status", arg |-> <<>>]
    /\ UNCHANGED <<detectorVars, zone, position, config, result, lifeVars, storeVars, threadVars,
                   now, inserted, returned, histVars>>

CallResetSensor ==
    /\ caller.pc = "idle"
    /\ \E s \in Sensors :
          /\ ResetSensor(s)
          /\ lastOp' = [op |-> "sensor_status", arg |-> <<>>]
    /\ UNCHANGED <<detectorVars, zone, position, config, result, lifeVars, storeVars, threadVars,
                   now, inserted, returned, histVars>>

-----------------------------------------------------------------------------
(* C1: after every add_sensor_reading call a sensor's buffer holds at most  *)
(* window_size readings, and they are the last ones inserted, in insertion  *)
(* order; after more than window_size calls it holds exactly window_size.   *)

C1_BufferHoldsLastInserted ==
    \A s \in Sensors :
        LET buf == sensor_data[s]
            all == inserted[s]
        IN  /\ Len(buf) <= WindowSize
            /\ Len(all) > WindowSize => Len(buf) = WindowSize
            /\ Len(buf) <= Len(all)
            /\ \A i \in 1..Len(buf) : buf[i] = all[Len(all) - Len(buf) + i]
            /\ Len(all) <= WindowSize => Len(buf) = Len(all)

C1_Witness ==
    \E s \in Sensors :
        /\ lastOp = [op |-> "add_sensor_reading", arg |-> <<s>>]
        /\ Len(inserted[s]) > WindowSize + 1
        /\ inserted[s][1] # inserted[s][Len(inserted[s])]

-----------------------------------------------------------------------------
(* C5: the list detect_anomalies returns is in descending order of severity *)
(* rank (low < medium < high < critical), and anomalies of equal severity   *)
(* are ordered by more recent timestamp first.                              *)

SeverityRank(sev) ==
    CASE sev = "low" -> 0 [] sev = "medium" -> 1 [] sev = "high" -> 2 [] sev = "critical" -> 3

C5_ReturnedInRankOrder ==
    lastOp.op = "detect_anomalies" =>
        \A i, j \in 1..Len(returned) :
            i < j =>
                \/ SeverityRank(returned[i].severity) > SeverityRank(returned[j].severity)
                \/ /\ returned[i].severity = returned[j].severity
                   /\ returned[i].timestamp >= returned[j].timestamp

-----------------------------------------------------------------------------
(* C7: detect_anomalies returns no anomaly of a sensor that has fewer than  *)
(* min_samples_for_detection stored readings.                               *)

C7_NoAnomalyBelowMinSamples ==
    lastOp.op = "detect_anomalies" =>
        \A i \in 1..Len(returned) :
            Len(sensor_data[returned[i].sensor_id]) >= MinSamples

-----------------------------------------------------------------------------
(* SpecMon: the monitoring system without a background worker (auto_start   *)
(* disabled), driven by simulate_step from one caller thread.               *)

InitMon ==
    /\ InitDetector
    /\ InitBuilding({Apart})
    /\ InitSystem
    /\ \E save \in BOOLEAN :
          config = [auto_start |-> FALSE, save_history |-> save, enable_alerts |-> TRUE,
                    alert_threshold |-> "medium"]

NextMon ==
    \/ CallSimulateStep
    \/ CallStartMonitoring
    \/ CallStopMonitoring
    \/ CallSetMaintenanceMode
    \/ CallResetSensor

SpecMon == InitMon /\ [][NextMon]_vars

-----------------------------------------------------------------------------
(* MonitoringSystem._monitoring_loop, one action per position of a worker   *)
(* thread.  Positions: "started" (thread started, nothing run), "loop_check"*)
(* (at the while condition), "collect" (inside the try, before the          *)
(* collection pass), "check_interval" (after it), "wait" (in                *)
(* stop_event.wait), "error_sleep" (in the handler's time.sleep), "dead".   *)

AllOk == [s \in Sensors |-> [ok |-> TRUE, value |-> 0]]

InLoop(t) == workers[t].pc \in {"collect", "check_interval", "wait", "error_sleep"}

\* last_anomaly_check = datetime.now()
WorkerBegin(t) ==
    /\ workers[t].pc = "started"
    /\ workers' = [workers EXCEPT ![t].pc = "loop_check", ![t].last_anomaly_check = now,
                                  ![t].began = now]
    /\ lastOp' = [op |-> "worker", arg |-> <<>>]
    /\ UNCHANGED <<detectorVars, buildingVars, config, result, lifeVars, storeVars, caller, now,
                   inserted, returned, histVars>>

\* while self.is_running and not self.stop_event.is_set()
WorkerLoopCheck(t) ==
    /\ workers[t].pc = "loop_check"
    /\ workers' = [workers EXCEPT ![t].pc = IF is_running /\ ~stop_event
                                            THEN "collect" ELSE "dead"]
    /\ lastOp' = [op |-> "worker", arg |-> <<>>]
    /\ UNCHANGED <<detectorVars, buildingVars, config, result, lifeVars, storeVars, caller, now,
                   inserted, returned, histVars>>

\* self._collect_sensor_readings()
WorkerCollect(t) ==
    /\ workers[t].pc = "collect"
    /\ CollectSensorReadings(AllOk)
    /\ workers' = [workers EXCEPT ![t].pc = "check_interval"]
    /\ lastOp' = [op |-> "worker", arg |-> <<>>]
    /\ UNCHANGED <<detected_anomalies, accepted, network_graph, zone, position, config, result, lifeVars,
                   alert_history, total_anomalies, caller, now, returned, detect_passes>>

\* an exception inside the try, in the collection pass or in the detection
\* and alert processing: the handler logs it and sleeps
WorkerRaise(t) ==
    /\ workers[t].pc \in {"collect", "check_interval"}
    /\ workers' = [workers EXCEPT ![t].pc = "error_sleep", ![t].since = now]
    /\ lastOp' = [op |-> "worker", arg |-> <<>>]
    /\ UNCHANGED <<detectorVars, buildingVars, config, result, lifeVars, storeVars, caller, now,
                   inserted, returned, histVars>>

\* the iteration running the detection whatever time has passed
WorkerCheckEveryIteration(t) ==
    /\ workers[t].pc = "check_interval"
    /\ PerformAnomalyDetection(sensor_data, sensor_keys)
    /\ workers' = [workers EXCEPT ![t].pc = "wait", ![t].since = now,
                                  ![t].last_anomaly_check = now,
                                  ![t].detected = now]
    /\ lastOp' = [op |-> "worker", arg |-> <<>>]
    /\ UNCHANGED <<sensor_data, sensor_keys, buildingVars, config, result, lifeVars,
                   reading_history, total_readings, caller, now, inserted, hist>>

\* the periodic detection, then the worker enters stop_event.wait
WorkerCheckInterval(t) ==
    /\ workers[t].pc = "check_interval"
    /\ IF now - workers[t].last_anomaly_check >= AnomalyCheckInterval
       THEN /\ PerformAnomalyDetection(sensor_data, sensor_keys)
            /\ workers' = [workers EXCEPT ![t].pc = "wait", ![t].since = now,
                                          ![t].last_anomaly_check = now,
                                          ![t].detected = now]
       ELSE /\ workers' = [workers EXCEPT ![t].pc = "wait", ![t].since = now]
            /\ UNCHANGED <<detected_anomalies, accepted, network_graph, returned, total_anomalies,
                           alert_history, detect_passes>>
    /\ lastOp' = [op |-> "worker", arg |-> <<>>]
    /\ UNCHANGED <<sensor_data, sensor_keys, buildingVars, config, result, lifeVars,
                   reading_history, total_readings, caller, now, inserted, hist>>

\* stop_event.wait(sampling_interval) returns: the event is set or the
\* interval has passed
WorkerWake(t) ==
    /\ workers[t].pc = "wait"
    /\ stop_event \/ now - workers[t].since >= SamplingInterval
    /\ workers' = [workers EXCEPT ![t].pc = "loop_check"]
    /\ lastOp' = [op |-> "worker", arg |-> <<>>]
    /\ UNCHANGED <<detectorVars, buildingVars, config, result, lifeVars, storeVars, caller, now,
                   inserted, returned, histVars>>

\* the failure ending the thread after the pause
WorkerSleepThenExit(t) ==
    /\ workers[t].pc = "error_sleep"
    /\ now - workers[t].since >= ErrorPause
    /\ workers' = [workers EXCEPT ![t].pc = "dead"]
    /\ lastOp' = [op |-> "worker", arg |-> <<>>]
    /\ UNCHANGED <<detectorVars, buildingVars, config, result, lifeVars, storeVars, caller, now,
                   inserted, returned, histVars>>

\* time.sleep(5) returns
WorkerSleepDone(t) ==
    /\ workers[t].pc = "error_sleep"
    /\ now - workers[t].since >= ErrorPause
    /\ workers' = [workers EXCEPT ![t].pc = "loop_check"]
    /\ lastOp' = [op |-> "worker", arg |-> <<>>]
    /\ UNCHANGED <<detectorVars, buildingVars, config, result, lifeVars, storeVars, caller, now,
                   inserted, returned, histVars>>

\* the clock advances; a join whose thread has ended or whose timeout has
\* passed returns before it advances further
Tick ==
    /\ now < MaxTime
    /\ ~(caller.pc = "joining" /\ JoinMayReturn)
    /\ now' = now + 1
    /\ lastOp' = [op |-> "tick", arg |-> <<>>]
    /\ UNCHANGED <<detectorVars, buildingVars, config, result, lifeVars, storeVars, threadVars,
                   inserted, returned, histVars>>

-----------------------------------------------------------------------------
(* SpecLoop: the system with auto_start, driven by start_monitoring and     *)
(* stop_monitoring calls of one caller while its workers run.               *)

InitLoop ==
    /\ InitDetector
    /\ InitBuilding({SameZone})
    /\ InitSystem
    /\ config = [auto_start |-> TRUE, save_history |-> FALSE, enable_alerts |-> TRUE,
                 alert_threshold |-> "medium"]

NextLoop ==
    \/ CallStartMonitoring
    \/ CallStopMonitoring
    \/ JoinReturn
    \/ Tick
    \/ \E t \in Threads :
          \/ WorkerBegin(t)
          \/ WorkerLoopCheck(t)
          \/ WorkerCollect(t)
          \/ WorkerRaise(t)
          \/ WorkerCheckInterval(t)
          \/ WorkerWake(t)
          \/ WorkerSleepDone(t)

SpecLoop == InitLoop /\ [][NextLoop]_vars

-----------------------------------------------------------------------------
(* SpecAlerts: _process_alerts on any list of anomalies, under any          *)
(* alert_threshold.                                                         *)

SomeAnomalies ==
    {[sensor_id |-> "s1", anomaly_type |-> "unknown", severity |-> sev,
      confidence |-> 500, timestamp |-> 1, value |-> 1] : sev \in Severities}

AnomalyLists == UNION {[1..n -> SomeAnomalies] : n \in 0..MaxAnomalies}

InitAlerts ==
    /\ InitDetector
    /\ InitBuilding({SameZone})
    /\ InitSystem
    /\ \E threshold \in Severities :
          config = [auto_start |-> FALSE, save_history |-> TRUE, enable_alerts |-> TRUE,
                    alert_threshold |-> threshold]

CallProcessAlerts ==
    /\ Len(alert_history) < MaxAlerts
    /\ \E anomalies \in AnomalyLists :
          /\ ProcessAlerts(anomalies)
          /\ lastOp' = [op |-> "process_alerts", arg |-> anomalies]
    /\ UNCHANGED <<now, detectorVars, buildingVars, config, result, lifeVars, reading_history,
                   total_readings, total_anomalies, threadVars, inserted, returned,
                   histVars>>

NextAlerts == CallProcessAlerts

SpecAlerts == InitAlerts /\ [][NextAlerts]_vars

-----------------------------------------------------------------------------
(* C6: alert processing appends exactly one alert for each input anomaly    *)
(* whose severity rank is at least the rank of alert_threshold, in input    *)
(* order, nothing for the others, and leaves the existing alerts as they    *)
(* are.                                                                     *)

Qualifying(anomalies) ==
    SelectSeq(anomalies,
              LAMBDA a : SeverityRank(a.severity) >= SeverityRank(config.alert_threshold))

C6_Step ==
    lastOp'.op = "process_alerts" =>
        LET q == Qualifying(lastOp'.arg)
            old == Len(alert_history)
        IN  /\ Len(alert_history') = old + Len(q)
            /\ SubSeq(alert_history', 1, old) = alert_history
            /\ \A i \in 1..Len(q) :
                  /\ alert_history'[old + i].sensor_id = q[i].sensor_id
                  /\ alert_history'[old + i].severity = q[i].severity
                  /\ alert_history'[old + i].anomaly_type = q[i].anomaly_type
                  /\ alert_history'[old + i].value = q[i].value
                  /\ alert_history'[old + i].confidence = q[i].confidence

C6_AlertsAtOrAboveThreshold == [][C6_Step]_vars

C6_Witness ==
    /\ lastOp.op = "process_alerts"
    /\ config.alert_threshold = "high"
    /\ Len(lastOp.arg) = 2
    /\ lastOp.arg[1].severity = "medium"
    /\ lastOp.arg[2].severity = "high"
    /\ Len(alert_history) = 2
    /\ alert_history[1].severity = "critical"
    /\ alert_history[2].severity = "high"

-----------------------------------------------------------------------------
(* C8: in a collection pass the failure of one sensor's take_reading is     *)
(* recorded as that sensor's error entry; every other active sensor is      *)
(* still read, fed to the detector and counted, and the snapshot is still   *)
(* appended (when save_history is set).                                     *)

C8_Step ==
    lastOp'.op = "simulate_step" =>
        LET outcome == lastOp'.arg[1]
            ok == {s \in Sensors : status[s] = "active" /\ outcome[s].ok}
            failed == {s \in Sensors : status[s] = "active" /\ ~outcome[s].ok}
        IN  /\ total_readings' = total_readings + Cardinality(ok)
            /\ \A s \in ok :
                  /\ Len(inserted'[s]) = Len(inserted[s]) + 1
                  /\ Last(inserted'[s]).value = outcome[s].value
                  /\ Last(inserted'[s]).timestamp = now
                  /\ Last(sensor_data'[s]) = Last(inserted'[s])
            /\ \A s \in Sensors \ ok : inserted'[s] = inserted[s]
            /\ config.save_history =>
                  /\ reading_history' # <<>>
                  /\ Last(reading_history').timestamp = now
                  /\ Len(reading_history') = Min(Len(reading_history) + 1, MaxHistorySize)
                  /\ \A s \in failed : Last(reading_history').readings[s].kind = "error"
                  /\ \A s \in ok :
                        /\ Last(reading_history').readings[s].kind = "value"
                        /\ Last(reading_history').readings[s].value = outcome[s].value

C8_FailureIsolatedToItsSensor == [][C8_Step]_vars

C8_Witness ==
    /\ lastOp.op = "simulate_step"
    /\ config.save_history
    /\ ~lastOp.arg[1]["s1"].ok
    /\ Last(reading_history).readings["s1"].kind = "error"
    /\ Last(reading_history).readings["s2"].kind = "value"
    /\ status["s1"] = "error"
    /\ Last(inserted["s2"]).timestamp = Last(reading_history).timestamp
    /\ total_readings = hist.active_sum - hist.failures

-----------------------------------------------------------------------------
(* C9: without a background worker and without sensor failures,             *)
(* total_readings never decreases and equals the sum, over the              *)
(* simulate_step calls made, of the number of sensors active at the call.   *)

C9_TotalReadings ==
    /\ [](hist.failures = 0 => total_readings = hist.active_sum)
    /\ [][total_readings' >= total_readings]_vars

C9_Witness ==
    /\ hist.failures = 0
    /\ hist.collect_passes = 2
    /\ monitoring_thread = NoThread
    /\ total_readings = 3

-----------------------------------------------------------------------------
(* C10: a simulate_step call makes exactly one collection pass, then        *)
(* exactly one detection-and-alert pass on what was collected, whatever the *)
(* time since the last detection and whether or not the system is running,  *)
(* and leaves is_running and the stop signal as they are.                   *)

C10_Step ==
    lastOp'.op = "simulate_step" =>
        /\ hist'.collect_passes = hist.collect_passes + 1
        /\ detect_passes' = detect_passes + 1
        /\ returned' = SortedBySeverityAndTimestamp(
                          FoundAnomalies(sensor_data', sensor_keys',
                                         BuildingGraph(zone, position), sensor_keys'))
        /\ Len(detected_anomalies') = Len(detected_anomalies) + Len(returned')
        /\ is_running' = is_running
        /\ stop_event' = stop_event

C10_OneCollectionThenOneDetection == [][C10_Step]_vars

C10_Witness ==
    /\ lastOp.op = "simulate_step"
    /\ is_running
    /\ detect_passes = 2
    /\ now < AnomalyCheckInterval
    /\ returned # <<>>

-----------------------------------------------------------------------------
(* C2: start_monitoring called while is_running is true changes nothing:    *)
(* is_running, start_time, the stop signal and the worker thread stay as    *)
(* they are and no worker is spawned; stop_monitoring called while          *)
(* is_running is false changes nothing.                                     *)

C2_Step ==
    /\ lastOp'.op = "start_monitoring" =>
          (lastOp'.arg[1] =>
              UNCHANGED <<is_running, start_time, stop_event, monitoring_thread, workers>>)
    /\ lastOp'.op = "stop_monitoring" =>
          (~lastOp'.arg[1] =>
              UNCHANGED <<is_running, start_time, stop_event, monitoring_thread, workers,
                          caller>>)

C2_NotReentrant == [][C2_Step]_vars

C2_Witness ==
    /\ lastOp.op = "start_monitoring"
    /\ lastOp.arg[1]
    /\ is_running
    /\ Unborn # {}
    /\ IsAlive(monitoring_thread)
    /\ start_time < now

-----------------------------------------------------------------------------
(* C3: stop_monitoring called while running waits for the worker no longer  *)
(* than the join timeout, and when it returns is_running is false and the   *)
(* stop signal is set, whether or not the worker has ended.                 *)

-----------------------------------------------------------------------------
(* C4: at most one worker is executing the monitoring loop at any time.     *)

C4_AtMostOneWorker ==
    Cardinality({t \in Threads : InLoop(t)}) <= 1

-----------------------------------------------------------------------------
(* SpecHistory: collection passes with save_history set, more of them than  *)
(* max_history_size; the clock moves between two passes.                    *)

InitHistory ==
    /\ InitDetector
    /\ InitBuilding({SameZone})
    /\ InitSystem
    /\ config = DefaultConfig

CallCollectSensorReadings ==
    /\ hist.collect_passes < MaxPasses
    /\ \E outcome \in [Sensors -> Outcomes({0, 3})] :
          /\ \A s \in Sensors : ~IsActive(status, s) => outcome[s] = [ok |-> TRUE, value |-> 0]
          /\ CollectSensorReadings(outcome)
          /\ lastOp' = [op |-> "collect_sensor_readings", arg |-> <<outcome>>]
    /\ now' = now + 1
    /\ UNCHANGED <<detected_anomalies, accepted, network_graph, returned, zone, position,
                   config, result, lifeVars, alert_history, total_anomalies, threadVars,
                   detect_passes>>

NextHistory == CallCollectSensorReadings

SpecHistory == InitHistory /\ [][NextHistory]_vars

-----------------------------------------------------------------------------
(* C11: after every collection pass the reading history holds at most       *)
(* max_history_size snapshots, and they are the most recent of the          *)
(* snapshots appended so far, in append order.                              *)

C11_HistoryHoldsLatestSnapshots ==
    /\ Len(reading_history) <= MaxHistorySize
    /\ reading_history = LastN(hist.snapshots, MaxHistorySize)

C11_Witness ==
    /\ lastOp.op = "collect_sensor_readings"
    /\ Len(hist.snapshots) > MaxHistorySize
    /\ Len(reading_history) = MaxHistorySize
    /\ reading_history[1] # hist.snapshots[1]
    /\ reading_history[1].timestamp < Last(reading_history).timestamp

-----------------------------------------------------------------------------
(* AnomalyDetector.get_anomaly_summary, clear_old_anomalies *)

AnomalyTypes ==
    {"energy_spike", "equipment_failure", "efficiency_drop", "network_isolation",
     "seasonal_deviation", "occupancy_mismatch", "unknown"}

TicksPerDay == 24 * TicksPerHour

\* datetime.isoformat(): the text of a time, not the time
IsoFormat(ts) == <<"iso", ts>>

NoneValue == <<"None">>

\* [a for a in self.detected_anomalies if a.timestamp >= cutoff_time]
NotOlderThan(store, cutoff_time) == SelectSeq(store, LAMBDA a : a.timestamp >= cutoff_time)

\* the summary whose total counts the whole store
SummaryCountingStore(store, hours, t) ==
    LET cutoff_time == t - hours * TicksPerHour
        recent_anomalies == NotOlderThan(store, cutoff_time)
    IN  [total_anomalies |-> Len(store),
         by_severity |-> [level \in Severities |->
              Len(SelectSeq(recent_anomalies, LAMBDA a : a.severity = level))],
         by_type |-> [atype \in AnomalyTypes |->
              Len(SelectSeq(recent_anomalies, LAMBDA a : a.anomaly_type = atype))],
         most_recent |-> IF recent_anomalies # <<>>
                         THEN IsoFormat(recent_anomalies[1].timestamp)
                         ELSE NoneValue,
         critical_sensors |-> {}]

AnomalySummary(store, hours, t) ==
    LET cutoff_time == t - hours * TicksPerHour
        recent_anomalies == NotOlderThan(store, cutoff_time)
    IN  [total_anomalies |-> Len(recent_anomalies),
         by_severity |-> [level \in Severities |->
              Len(SelectSeq(recent_anomalies, LAMBDA a : a.severity = level))],
         by_type |-> [atype \in AnomalyTypes |->
              Len(SelectSeq(recent_anomalies, LAMBDA a : a.anomaly_type = atype))],
         most_recent |-> IF recent_anomalies # <<>>
                         THEN IsoFormat(recent_anomalies[1].timestamp)
                         ELSE NoneValue,
         critical_sensors |-> {recent_anomalies[i].sensor_id :
                                  i \in {j \in 1..Len(recent_anomalies) :
                                            recent_anomalies[j].severity = "critical"}}]

GetAnomalySummary(hours) ==
    result' = [op |-> "get_anomaly_summary", hours |-> hours,
               ret |-> AnomalySummary(detected_anomalies, hours, now)]

\* clear_old_anomalies in three steps: the cutoff and the initial count are
\* taken, the list of kept anomalies is built, the store is replaced by it
ClearBegin(days) ==
    result' = [op |-> "clear_old_anomalies", pc |-> "filter",
               cutoff_time |-> now - days * TicksPerDay,
               initial_count |-> Len(detected_anomalies)]

ClearFilter ==
    result' = [op |-> "clear_old_anomalies", pc |-> "assign",
               cutoff_time |-> result.cutoff_time,
               initial_count |-> result.initial_count,
               kept |-> NotOlderThan(detected_anomalies, result.cutoff_time)]

ClearAssign ==
    /\ detected_anomalies' = result.kept
    /\ result' = [op |-> "clear_old_anomalies", pc |-> "done",
                  cutoff_time |-> result.cutoff_time,
                  ret |-> result.initial_count - Len(result.kept)]

\* the call with > in place of >=
ClearAtCutoffToo(days) ==
    LET cutoff_time == now - days * TicksPerDay
        kept == SelectSeq(detected_anomalies, LAMBDA a : a.timestamp > cutoff_time)
    IN  /\ detected_anomalies' = kept
        /\ result' = [op |-> "clear_old_anomalies", pc |-> "done",
                      cutoff_time |-> cutoff_time,
                      ret |-> Len(detected_anomalies) - Len(kept)]

\* the whole call, with nothing running between its steps
ClearOldAnomalies(days) ==
    LET cutoff_time == now - days * TicksPerDay
        kept == NotOlderThan(detected_anomalies, cutoff_time)
    IN  /\ detected_anomalies' = kept
        /\ result' = [op |-> "clear_old_anomalies", pc |-> "done",
                      cutoff_time |-> cutoff_time,
                      ret |-> Len(detected_anomalies) - Len(kept)]

SummaryHours == {0, 1, 24}
ClearDays == {0, 1, 7}

CallGetAnomalySummary ==
    /\ \E hours \in SummaryHours :
          /\ GetAnomalySummary(hours)
          /\ lastOp' = [op |-> "get_anomaly_summary", arg |-> <<hours>>]
    /\ UNCHANGED <<detectorVars, buildingVars, config, lifeVars, storeVars, threadVars, now,
                   inserted, returned, hist, detect_passes>>

CallClearOldAnomalies ==
    /\ \E days \in ClearDays :
          /\ ClearOldAnomalies(days)
          /\ lastOp' = [op |-> "clear_old_anomalies",
                        arg |-> <<days, detected_anomalies>>]
    /\ UNCHANGED <<sensor_data, sensor_keys, network_graph, accepted, buildingVars, config,
                   lifeVars, storeVars, threadVars, now, inserted, returned, hist,
                   detect_passes>>

-----------------------------------------------------------------------------
(* SpecSummary: the two calls on any anomaly store.  The stored anomalies   *)
(* are of any severity and type, taken two days ago, one day ago, an hour   *)
(* ago or now, in any order.                                                *)

DrawnTimes == {0, TicksPerDay, 2 * TicksPerDay - TicksPerHour, 2 * TicksPerDay}

DrawnAnomalies ==
    {[sensor_id |-> "s1", anomaly_type |-> atype, severity |-> sev,
      confidence |-> 500, timestamp |-> ts, value |-> 1] :
        atype \in {"unknown", "energy_spike"}, sev \in {"low", "critical"},
        ts \in DrawnTimes}

DrawnStores == UNION {[1..n -> DrawnAnomalies] : n \in 0..MaxDrawn}

InitSummary ==
    /\ sensor_data = [s \in Sensors |-> <<>>]
    /\ sensor_keys = <<>>
    /\ network_graph = NoGraph
    /\ inserted = [s \in Sensors |-> <<>>]
    /\ returned = <<>>
    /\ InitBuilding({SameZone})
    /\ is_running = FALSE
    /\ monitoring_thread = NoThread
    /\ stop_event = FALSE
    /\ reading_history = <<>>
    /\ alert_history = <<>>
    /\ start_time = NoTime
    /\ total_readings = 0
    /\ total_anomalies = 0
    /\ now = 2 * TicksPerDay
    /\ workers = [t \in Threads |->
                      [pc |-> "unborn", last_anomaly_check |-> NoTime, since |-> NoTime,
                       began |-> NoTime, detected |-> NoTime]]
    /\ caller = [pc |-> "idle", join_start |-> NoTime]
    /\ lastOp = NoOp
    /\ hist = [collect_passes |-> 0, active_sum |-> 0, failures |-> 0, snapshots |-> <<>>]
    /\ detect_passes = 0
    /\ result = NoResult
    /\ config = DefaultConfig
    /\ \E store \in DrawnStores :
          /\ detected_anomalies = store
          /\ accepted = store

NextSummary ==
    \/ CallGetAnomalySummary
    \/ CallClearOldAnomalies

SpecSummary == InitSummary /\ [][NextSummary]_vars

-----------------------------------------------------------------------------
(* C12: the summary's total_anomalies equals the sum of its by_severity     *)
(* counts and the sum of its by_type counts, and every severity and every   *)
(* anomaly type is a key of its map, also with count zero.                  *)

RECURSIVE SumOfCounts(_, _)
SumOfCounts(counts, keys) ==
    IF keys = {} THEN 0
    ELSE LET k == CHOOSE x \in keys : TRUE
         IN  counts[k] + SumOfCounts(counts, keys \ {k})

C12_SummaryCountsAgree ==
    result.op = "get_anomaly_summary" =>
        /\ DOMAIN result.ret.by_severity = Severities
        /\ DOMAIN result.ret.by_type = AnomalyTypes
        /\ result.ret.total_anomalies = SumOfCounts(result.ret.by_severity, Severities)
        /\ result.ret.total_anomalies = SumOfCounts(result.ret.by_type, AnomalyTypes)

C12_Witness ==
    /\ result.op = "get_anomaly_summary"
    /\ Len(detected_anomalies) = 2
    /\ result.ret.total_anomalies = 1
    /\ result.ret.by_severity["critical"] = 1
    /\ result.ret.by_severity["high"] = 0
    /\ result.ret.by_type["energy_spike"] = 1
    /\ result.ret.by_type["efficiency_drop"] = 0

-----------------------------------------------------------------------------
(* C13: the summary's most_recent is the latest timestamp among the         *)
(* anomalies inside the trailing window, or null when there are none.       *)

MaxTimestamp(anomalies) ==
    CHOOSE ts \in {anomalies[i].timestamp : i \in 1..Len(anomalies)} :
        \A j \in 1..Len(anomalies) : anomalies[j].timestamp <= ts

C13_MostRecentIsLatest ==
    result.op = "get_anomaly_summary" =>
        LET recent == NotOlderThan(detected_anomalies, now - result.hours * TicksPerHour)
        IN  result.ret.most_recent =
                IF recent = <<>> THEN NoneValue ELSE IsoFormat(MaxTimestamp(recent))

-----------------------------------------------------------------------------
(* C15: clear_old_anomalies, with nothing running beside it, leaves in the  *)
(* store exactly the anomalies stored before whose timestamp is not older   *)
(* than the cutoff, in their order, and returns the number removed.         *)

RECURSIVE KeptInOrder(_, _)
KeptInOrder(before, cutoff) ==
    IF before = <<>> THEN <<>>
    ELSE IF Head(before).timestamp < cutoff
         THEN KeptInOrder(Tail(before), cutoff)
         ELSE <<Head(before)>> \o KeptInOrder(Tail(before), cutoff)

C15_ClearKeepsRecent ==
    lastOp.op = "clear_old_anomalies" =>
        LET days == lastOp.arg[1]
            before == lastOp.arg[2]
        IN  /\ detected_anomalies = KeptInOrder(before, now - days * TicksPerDay)
            /\ result.ret = Len(before) - Len(detected_anomalies)
            /\ result.ret >= 0

C15_Witness ==
    /\ lastOp.op = "clear_old_anomalies"
    /\ lastOp.arg[1] = 1
    /\ Len(lastOp.arg[2]) = 2
    /\ lastOp.arg[2][1].timestamp = 0
    /\ lastOp.arg[2][2].timestamp = TicksPerDay
    /\ result.ret = 1
    /\ Len(detected_anomalies) = 1

-----------------------------------------------------------------------------
(* C14: the anomaly store never holds two records with the same sensor_id,  *)
(* anomaly_type, timestamp and value.                                       *)

C14_NoDuplicateRecords ==
    \A i, j \in 1..Len(detected_anomalies) :
        (/\ detected_anomalies[i].sensor_id = detected_anomalies[j].sensor_id
         /\ detected_anomalies[i].anomaly_type = detected_anomalies[j].anomaly_type
         /\ detected_anomalies[i].timestamp = detected_anomalies[j].timestamp
         /\ detected_anomalies[i].value = detected_anomalies[j].value) => i = j

-----------------------------------------------------------------------------
(* SpecNetwork: detect_anomalies(sensor_ids) for any list of known sensor   *)
(* ids, on any buffers, before and after the graph snapshot is taken.       *)

NetworkValueSeqs == UNION {[1..n -> {0, 3}] : n \in 0..WindowSize}

SensorIdLists(keys) == {keys, <<>>} \cup {<<keys[i]>> : i \in 1..Len(keys)}

InitNetwork ==
    /\ InitBuilding(Topologies)
    /\ InitSystem
    /\ config = DefaultConfig
    /\ \E vals \in [Sensors -> NetworkValueSeqs] :
          /\ sensor_data = [s \in Sensors |-> BufferOf(s, vals[s])]
          /\ inserted = sensor_data
          /\ sensor_keys = SelectSeq(BuildingSensors, LAMBDA s : vals[s] # <<>>)
    /\ detected_anomalies = <<>>
    /\ accepted = <<>>
    /\ network_graph = NoGraph
    /\ returned = <<>>

CallDetectAnomaliesFor ==
    /\ Len(detected_anomalies) < MaxStore
    /\ \E sensor_ids \in SensorIdLists(sensor_keys) :
          /\ DetectAnomalies(sensor_data, sensor_keys, sensor_ids, network_graph)
          /\ lastOp' = [op |-> "detect_anomalies_for", arg |-> <<sensor_ids>>]
    /\ UNCHANGED <<sensor_data, sensor_keys, network_graph, inserted,
                   buildingVars, config, result, lifeVars, storeVars, threadVars, now,
                   histVars>>

NextNetwork ==
    \/ CallUpdateNetworkGraph
    \/ CallDetectAnomaliesFor

SpecNetwork == InitNetwork /\ [][NextNetwork]_vars

-----------------------------------------------------------------------------
(* C16, as the specification states it: with a graph snapshot present, a    *)
(* detect_anomalies call returns, for every graph node of degree 0, exactly *)
(* one network_isolation anomaly.                                           *)

IsolationAnomaliesOf(anomalies, node) ==
    SelectSeq(anomalies,
              LAMBDA a : a.sensor_id = node /\ a.anomaly_type = "network_isolation")

GraphNodes == Range(network_graph.nodes)

C16_EveryIsolatedNodeReported ==
    (lastOp.op = "detect_anomalies_for" /\ GraphTruthy(network_graph)) =>
        \A node \in GraphNodes :
            Degree(network_graph, node) = 0 =>
                Len(IsolationAnomaliesOf(returned, node)) = 1

(* C16, amended: with a graph snapshot present, a detect_anomalies call     *)
(* returns, whatever its sensor_ids argument, for every graph node of       *)
(* degree 0 that has a stored reading exactly one network_isolation         *)
(* anomaly, of severity high and confidence 1.0, with the timestamp and the *)
(* value of the node's latest stored reading; for a node of degree 0        *)
(* without a stored reading it returns none.                                *)

C16_IsolatedNodeWithReadingReported ==
    (lastOp.op = "detect_anomalies_for" /\ GraphTruthy(network_graph)) =>
        \A node \in GraphNodes :
            LET found == IsolationAnomaliesOf(returned, node)
            IN  Degree(network_graph, node) = 0 =>
                    IF sensor_data[node] # <<>>
                    THEN /\ Len(found) = 1
                         /\ found[1].severity = "high"
                         /\ found[1].confidence = 1000
                         /\ found[1].timestamp = Last(sensor_data[node]).timestamp
                         /\ found[1].value = Last(sensor_data[node]).value
                    ELSE found = <<>>

C16_Witness ==
    /\ lastOp.op = "detect_anomalies_for"
    /\ lastOp.arg[1] = <<"s1">>
    /\ GraphTruthy(network_graph)
    /\ Degree(network_graph, "s2") = 0
    /\ Len(sensor_data["s2"]) = 2
    /\ Len(IsolationAnomaliesOf(returned, "s2")) = 1
    /\ sensor_data["s1"] # <<>>
    /\ Len(returned) >= 3

-----------------------------------------------------------------------------
(* SpecConfig: the system constructed with any alert_threshold string, one  *)
(* of the four levels or not, then run as in SpecLoop.  MonitoringConfig is *)
(* a dataclass without __post_init__ and __init__ stores the configuration  *)
(* it is given.                                                             *)

ThresholdStrings == {"medium", "urgent"}

InitConfig ==
    /\ InitDetector
    /\ InitBuilding({SameZone})
    /\ InitSystem
    /\ \E threshold \in ThresholdStrings :
          config = [auto_start |-> TRUE, save_history |-> FALSE, enable_alerts |-> TRUE,
                    alert_threshold |-> threshold]

NextConfig == NextLoop

SpecConfig == InitConfig /\ [][NextConfig]_vars

-----------------------------------------------------------------------------
(* C17: no monitoring loop iteration runs with an invalid configuration     *)
(* (here: an alert_threshold that is not one of low, medium, high,          *)
(* critical): constructing the system with it fails.                        *)

C17_NoIterationWithInvalidConfig ==
    (hist.collect_passes > 0 \/ \E t \in Threads : InLoop(t)) =>
        config.alert_threshold \in Severities

-----------------------------------------------------------------------------
(* SpecDefault: a detector with the default window_size and                 *)
(* min_samples_for_detection, seeded reading by reading with one of a few   *)
(* series per sensor, and detect_anomalies called at any point.  s1 is an   *)
(* energy-power meter, s2 a temperature sensor of the same zone.  The i-th  *)
(* reading of a sensor is taken at SeedTime(i), further from its neighbours *)
(* than the alignment tolerance.                                            *)

Rep(n, v) == [i \in 1..n |-> v]
Alternating(n, a, b) == [i \in 1..n |-> IF i % 2 = 1 THEN a ELSE b]

NineThenTen == Rep(9, 100) \o Rep(10, 500)

SeedSeries(s) ==
    IF s = "s1"
    THEN {Rep(h, 100) \o Rep(10, hi) : h \in {9, 10, 11}, hi \in {100, 500}}
            \cup {Alternating(10, 90, 110) \o Rep(10, 500)}
            \cup {<<30, 0>> \o Alternating(18, 5, 6)}
    ELSE {<<30, 0>> \o Alternating(18, 6, 5), <<30, 0>> \o Alternating(18, 5, 6)}

IsPrefix(a, b) == Len(a) <= Len(b) /\ SubSeq(b, 1, Len(a)) = a

SeedTime(i) == i * (AlignTolerance + 1)

InitDefault ==
    /\ InitDetector
    /\ InitBuilding({SameZone})
    /\ InitSystem
    /\ config = DefaultConfig

CallSeedReading ==
    /\ \E s \in Sensors, v \in {0, 5, 6, 30, 90, 100, 110, 500} :
          /\ \E series \in SeedSeries(s) :
                IsPrefix(Append(ValuesOf(inserted[s]), v), series)
          /\ LET reading == Reading(s, v, SeedTime(Len(inserted[s]) + 1))
             IN  /\ sensor_keys' = AddedKeys(sensor_keys, s)
                 /\ sensor_data' = [sensor_data EXCEPT
                        ![s] = AppendedBufferWith(@, reading, DefaultWindowSize)]
                 /\ inserted' = [inserted EXCEPT ![s] = Append(@, reading)]
                 /\ now' = IF reading.timestamp > now THEN reading.timestamp ELSE now
          /\ lastOp' = [op |-> "add_sensor_reading", arg |-> <<s>>]
    /\ UNCHANGED <<detected_anomalies, accepted, network_graph, returned, buildingVars,
                   config, result, lifeVars, storeVars, threadVars, histVars>>

CallDetectAnomaliesDefault ==
    /\ Len(detected_anomalies) < MaxStore
    /\ LET found == FoundAnomaliesWith(sensor_data, sensor_keys, network_graph,
                                       sensor_keys, DefaultMinSamples)
       IN  /\ detected_anomalies' = detected_anomalies \o found
           /\ accepted' = accepted \o found
           /\ returned' = SortedBySeverityAndTimestamp(found)
    /\ lastOp' = [op |-> "detect_anomalies", arg |-> <<>>]
    /\ UNCHANGED <<sensor_data, sensor_keys, network_graph, inserted,
                   buildingVars, config, result, lifeVars, storeVars, threadVars, now,
                   histVars>>

NextDefault ==
    \/ CallSeedReading
    \/ CallDetectAnomaliesDefault

SpecDefault == InitDefault /\ [][NextDefault]_vars

-----------------------------------------------------------------------------
(* C18: every anomaly stored or returned has a confidence within [0, 1].    *)

C18_ConfidenceInUnitInterval ==
    /\ \A i \in 1..Len(accepted) :
          accepted[i].confidence >= 0 /\ accepted[i].confidence <= 1000
    /\ \A i \in 1..Len(returned) :
          returned[i].confidence >= 0 /\ returned[i].confidence <= 1000

-----------------------------------------------------------------------------
(* C19: with the default configuration, after 9 readings of 100 and then    *)
(* 10 readings of 500 of the energy-power sensor, detect_anomalies returns  *)
(* an energy_spike anomaly of severity high for it.                         *)

C19_SpikeAfterNineThenTen ==
    (lastOp.op = "detect_anomalies" /\ ValuesOf(sensor_data["s1"]) = NineThenTen) =>
        \E i \in 1..Len(returned) :
            /\ returned[i].sensor_id = "s1"
            /\ returned[i].anomaly_type = "energy_spike"
            /\ returned[i].severity = "high"

-----------------------------------------------------------------------------
(* SpecRace: the running system of SpecLoop on a building whose sensors are *)
(* all isolated, so that every detection pass of a worker appends network   *)
(* anomalies to the store, while a thread of the application makes one call *)
(* of clear_old_anomalies.  The call has no lock, and the interpreter may   *)
(* switch threads between building the list of kept anomalies and storing   *)
(* it into self.detected_anomalies.                                         *)

InitRace ==
    /\ InitDetector
    /\ InitBuilding({Apart})
    /\ InitSystem
    /\ config = [auto_start |-> TRUE, save_history |-> FALSE, enable_alerts |-> TRUE,
                 alert_threshold |-> "medium"]

\* cutoff_time = datetime.now() - timedelta(days=days);
\* initial_count = len(self.detected_anomalies)
CallClearBegin ==
    /\ result.op = "none"
    /\ \E days \in ClearDays :
          /\ ClearBegin(days)
          /\ lastOp' = [op |-> "clear_begin", arg |-> <<days>>]
    /\ UNCHANGED <<detectorVars, buildingVars, config, lifeVars, storeVars, threadVars, now,
                   inserted, returned, histVars>>

\* [a for a in self.detected_anomalies if a.timestamp >= cutoff_time]
CallClearFilter ==
    /\ result.op = "clear_old_anomalies"
    /\ result.pc = "filter"
    /\ ClearFilter
    /\ lastOp' = [op |-> "clear_filter", arg |-> <<>>]
    /\ UNCHANGED <<detectorVars, buildingVars, config, lifeVars, storeVars, threadVars, now,
                   inserted, returned, histVars>>

\* self.detected_anomalies = ...; return initial_count - len(...)
CallClearAssign ==
    /\ result.op = "clear_old_anomalies"
    /\ result.pc = "assign"
    /\ ClearAssign
    /\ lastOp' = [op |-> "clear_assign", arg |-> <<>>]
    /\ UNCHANGED <<sensor_data, sensor_keys, network_graph, accepted, buildingVars, config,
                   lifeVars, storeVars, threadVars, now, inserted, returned, histVars>>

NextRace ==
    \/ NextLoop
    \/ CallClearBegin
    \/ CallClearFilter
    \/ CallClearAssign

SpecRace == InitRace /\ [][NextRace]_vars

-----------------------------------------------------------------------------
(* C20: when clear_old_anomalies completes, every anomaly that detection    *)
(* has appended to the store and that is not older than the call's cutoff   *)
(* is still in the store, as many times as it was appended, whatever the    *)
(* interleaving of the call with the workers' detection passes.             *)

Occurrences(anomalies, a) ==
    Cardinality({i \in 1..Len(anomalies) : anomalies[i] = a})

C20_RecentAnomalyNeverLost ==
    (lastOp.op = "clear_assign") =>
        \A i \in 1..Len(accepted) :
            accepted[i].timestamp >= result.cutoff_time =>
                Occurrences(detected_anomalies, accepted[i])
                    >= Occurrences(accepted, accepted[i])

-----------------------------------------------------------------------------
(* C21: an iteration of a worker's loop runs the detection if and only if   *)
(* the time since that worker's last detection, or since its loop began     *)
(* when it has not detected yet, is at least anomaly_check_interval.        *)

C21_Step(t) == workers[t].pc = "check_interval" /\ workers'[t].pc = "wait"

C21_Elapsed(t) ==
    now - (IF workers[t].detected # NoTime THEN workers[t].detected
           ELSE workers[t].began)

C21_DetectionOnInterval ==
    [][\A t \in Threads :
          C21_Step(t) =>
              ((detect_passes' = detect_passes + 1)
                  <=> (C21_Elapsed(t) >= AnomalyCheckInterval))]_vars

C21_Witness ==
    \E t \in Threads :
        /\ workers[t].pc = "wait"
        /\ workers[t].detected = now
        /\ workers[t].began + AnomalyCheckInterval <= now
        /\ detect_passes > 0

-----------------------------------------------------------------------------
(* C22: a worker that is waiting between sampling intervals, or pausing     *)
(* after a failure of an iteration, is woken by the stop signal at once: as *)
(* soon as the stop event is set it can go on to the loop condition without *)
(* the clock advancing.                                                     *)

C22_StopWakesWorkerAtOnce ==
    \A t \in Threads :
        (stop_event /\ workers[t].pc \in {"wait", "error_sleep"}) =>
            ENABLED (WorkerWake(t) \/ WorkerSleepDone(t))

-----------------------------------------------------------------------------
(* SpecRetry: the system of SpecLoop started once, so that one worker runs, *)
(* and stopped at any time, with the scheduling the threads get: the clock  *)
(* advances, a join that can return returns, and a worker whose sleep is    *)
(* over or that stands at the loop condition takes its step.                *)

NextRetry ==
    \/ (monitoring_thread = NoThread /\ CallStartMonitoring)
    \/ CallStopMonitoring
    \/ JoinReturn
    \/ Tick
    \/ \E t \in Threads :
          \/ WorkerBegin(t)
          \/ WorkerLoopCheck(t)
          \/ WorkerCollect(t)
          \/ WorkerRaise(t)
          \/ WorkerCheckInterval(t)
          \/ WorkerWake(t)
          \/ WorkerSleepDone(t)

LoopFairness ==
    /\ WF_vars(Tick)
    /\ WF_vars(JoinReturn)
    /\ \A t \in Threads : WF_vars(WorkerSleepDone(t)) /\ WF_vars(WorkerLoopCheck(t))

SpecRetry == InitLoop /\ [][NextRetry]_vars /\ LoopFairness

-----------------------------------------------------------------------------
(* C23: an exception raised in a worker's iteration never ends the worker:  *)
(* from the collection, the detection or the pause it never goes to the end *)
(* of the thread, and a worker pausing after a failure comes to the start   *)
(* of another iteration unless the system has been stopped meanwhile.  (The *)
(* pause must be able to end before the clock of the model stops.)          *)

C23_FailureNeverEndsWorker ==
    /\ [][\A t \in Threads :
             workers[t].pc \in {"collect", "check_interval", "error_sleep"}
                 => workers'[t].pc # "dead"]_vars
    /\ \A t \in Threads :
          (workers[t].pc = "error_sleep" /\ workers[t].since + ErrorPause <= MaxTime)
              ~> (workers[t].pc = "collect" \/ ~is_running \/ stop_event)

C23_Witness ==
    \E t \in Threads :
        /\ workers[t].pc = "collect"
        /\ workers[t].since # NoTime
        /\ hist.collect_passes = 0
        /\ is_running /\ ~stop_event

-----------------------------------------------------------------------------
(* SpecEnergy: _detect_energy_anomalies on the window of a sensor.  The     *)
(* window is a historical part of values 18 and 22 (mean 20 and standard    *)
(* deviation 2 when there are as many of each) followed by 9 or 10 equal    *)
(* recent values; both sensors hold it, s1 as an energy sensor.             *)

HistoricalParts == UNION {[1..n -> {18, 22}] : n \in 0..MaxHistorical}
RecentLevels == {12, 14, 20, 24, 25, 26, 28}
EnergyWindows ==
    {h \o Rep(k, r) : h \in HistoricalParts, k \in {RecentCount - 1, RecentCount},
                      r \in RecentLevels}

InitEnergy ==
    /\ InitBuilding({SameZone})
    /\ InitSystem
    /\ config = DefaultConfig
    /\ \E window \in EnergyWindows :
          /\ sensor_data = [s \in Sensors |-> BufferOf(s, window)]
          /\ inserted = sensor_data
    /\ sensor_keys = BuildingSensors
    /\ detected_anomalies = <<>>
    /\ accepted = <<>>
    /\ network_graph = NoGraph
    /\ returned = <<>>

CallDetectEnergyAnomalies ==
    /\ \E s \in Sensors :
          /\ returned' = DetectEnergyAnomalies(sensor_data, s)
          /\ lastOp' = [op |-> "detect_energy_anomalies", arg |-> <<s>>]
    /\ UNCHANGED <<detectorVars, buildingVars, config, result, lifeVars, storeVars, threadVars,
                   now, inserted, histVars>>

NextEnergy == CallDetectEnergyAnomalies

SpecEnergy == InitEnergy /\ [][NextEnergy]_vars

-----------------------------------------------------------------------------
(* C24: the energy-spike check of an energy sensor emits an anomaly if and  *)
(* only if std(historical) > 0 and |z| > 2, z being (mean(recent) -         *)
(* mean(historical)) / std(historical); its severity is high iff |z| > 3,   *)
(* else medium, and its confidence is min(1, |z| / 3).  With n historical   *)
(* values, z = (n * sum(recent) - 10 * sum(historical)) / (10 * sqrt(V)),   *)
(* V being n^2 times the variance.  Historical mean 20, std 2 and recent    *)
(* mean 28 give high with confidence 1; recent mean 25 gives medium with    *)
(* confidence 0.833.                                                        *)

C24_Checked == lastOp.op = "detect_energy_anomalies" /\ lastOp.arg[1] = "s1"

C24_Values == ValuesOf(sensor_data["s1"])
C24_Historical == AllButLastN(C24_Values, 10)
C24_ZNum ==
    Len(C24_Historical) * SumSeq(LastN(C24_Values, 10)) - 10 * SumSeq(C24_Historical)
C24_ZAbove(k) == C24_ZNum * C24_ZNum > 100 * k * k * VarNum(C24_Historical)
C24_ZBelow(k) == C24_ZNum * C24_ZNum < 100 * k * k * VarNum(C24_Historical)

C24_EnergySpikeRule ==
    C24_Checked =>
        IF Len(C24_Values) >= 10 /\ VarNum(C24_Historical) > 0 /\ C24_ZAbove(2)
        THEN /\ Len(returned) = 1
             /\ returned[1].sensor_id = "s1"
             /\ returned[1].anomaly_type = "energy_spike"
             /\ returned[1].severity = (IF C24_ZAbove(3) THEN "high" ELSE "medium")
             /\ returned[1].confidence <= 1000
             /\ (returned[1].confidence = 1000) <=> ~C24_ZBelow(3)
             /\ returned[1].confidence > 666
             /\ returned[1].timestamp = Last(sensor_data["s1"]).timestamp
             /\ (C24_Values = <<18, 22>> \o Rep(10, 28)) =>
                    returned[1].severity = "high" /\ returned[1].confidence = 1000
             /\ (C24_Values = <<18, 22>> \o Rep(10, 25)) =>
                    returned[1].severity = "medium" /\ returned[1].confidence = 833
        ELSE returned = <<>>

C24_Witness ==
    /\ C24_Checked
    /\ C24_Values = <<18, 22>> \o Rep(10, 28)
    /\ Len(returned) = 1
    /\ returned[1].severity = "high"

-----------------------------------------------------------------------------
(* SpecTemporal: _detect_temporal_anomalies on the buffer of a sensor.  The *)
(* buffer holds 23, 24 or 25 readings; the last 1, 2 or 9 of them are taken *)
(* in the hour after the others, so that they are the hour bucket of the    *)
(* latest reading: equal values, or equal values and a different latest one.*)

BufferLengths == {TemporalMinReadings - 1, TemporalMinReadings, TemporalMinReadings + 1}
BucketSizes == {1, 2, 9}
BucketLevels == {10, 11, 30}

TemporalBuffer(s, n, k, a, b) ==
    [i \in 1..n |->
        IF i <= n - k THEN Reading(s, 10, i)
        ELSE Reading(s, IF i = n THEN b ELSE a, TicksPerHour + i)]

InitTemporal ==
    /\ InitBuilding({SameZone})
    /\ InitSystem
    /\ config = DefaultConfig
    /\ \E n \in BufferLengths, k \in BucketSizes, a \in BucketLevels, b \in BucketLevels :
          /\ sensor_data = [s \in Sensors |-> TemporalBuffer(s, n, k, a, b)]
          /\ inserted = sensor_data
    /\ sensor_keys = BuildingSensors
    /\ detected_anomalies = <<>>
    /\ accepted = <<>>
    /\ network_graph = NoGraph
    /\ returned = <<>>

CallDetectTemporalAnomalies ==
    /\ \E s \in Sensors :
          /\ returned' = DetectTemporalAnomalies(sensor_data, s)
          /\ lastOp' = [op |-> "detect_temporal_anomalies", arg |-> <<s>>]
    /\ UNCHANGED <<detectorVars, buildingVars, config, result, lifeVars, storeVars, threadVars,
                   now, inserted, histVars>>

NextTemporal == CallDetectTemporalAnomalies

SpecTemporal == InitTemporal /\ [][NextTemporal]_vars

-----------------------------------------------------------------------------
(* C25: the temporal-pattern check returns no anomaly when the sensor has   *)
(* fewer than 24 readings, and when the readings taken in the hour of day   *)
(* of the latest reading are a single one or all have the same value        *)
(* (standard deviation undefined or zero).                                  *)

C25_Readings == sensor_data[lastOp.arg[1]]

C25_Bucket ==
    {i \in 1..Len(C25_Readings) :
        (C25_Readings[i].timestamp \div TicksPerHour) % 24
            = (Last(C25_Readings).timestamp \div TicksPerHour) % 24}

C25_Degenerate ==
    \/ Len(C25_Readings) < 24
    \/ Cardinality(C25_Bucket) < 2
    \/ \A i, j \in C25_Bucket : C25_Readings[i].value = C25_Readings[j].value

C25_NoAnomalyWhenDegenerate ==
    (lastOp.op = "detect_temporal_anomalies" /\ C25_Degenerate) => returned = <<>>

C25_Witness ==
    /\ lastOp.op = "detect_temporal_anomalies"
    /\ Len(C25_Readings) >= 24
    /\ Cardinality(C25_Bucket) >= 2
    /\ \A i, j \in C25_Bucket : C25_Readings[i].value = C25_Readings[j].value
    /\ returned = <<>>

-----------------------------------------------------------------------------
(* SpecTypes: _detect_energy_anomalies on the windows of SpecEnergy, the    *)
(* readings carrying any sensor_type a sensor of the package reports: the   *)
(* f-strings energy_{meter_type}, hvac_{hvac_type}, lighting_{lighting_type}*)
(* and occupancy_{occupancy_type}.                                          *)

MeterTypes == {"power", "voltage", "current", "energy_total", "power_factor"}
HvacTypes == {"temperature", "humidity", "air_quality", "pressure"}
LightingTypes == {"illuminance", "energy", "dimmer_level"}
OccupancyTypes == {"people_count", "motion", "presence"}

SensorTypeString(family, measurement) == family \o "_" \o measurement

EnergyMeterSensorTypes == {SensorTypeString("energy", m) : m \in MeterTypes}

ReportedSensorTypes ==
    EnergyMeterSensorTypes
        \cup {SensorTypeString("hvac", m) : m \in HvacTypes}
        \cup {SensorTypeString("lighting", m) : m \in LightingTypes}
        \cup {SensorTypeString("occupancy", m) : m \in OccupancyTypes}

TypedBuffer(s, vals, sensor_type) ==
    [i \in 1..Len(vals) |-> [Reading(s, vals[i], i) EXCEPT !.sensor_type = sensor_type]]

InitTypes ==
    /\ InitBuilding({SameZone})
    /\ InitSystem
    /\ config = DefaultConfig
    /\ \E window \in EnergyWindows, sensor_type \in ReportedSensorTypes :
          /\ sensor_data = [s \in Sensors |-> TypedBuffer(s, window, sensor_type)]
          /\ inserted = sensor_data
    /\ sensor_keys = BuildingSensors
    /\ detected_anomalies = <<>>
    /\ accepted = <<>>
    /\ network_graph = NoGraph
    /\ returned = <<>>

SpecTypes == InitTypes /\ [][NextEnergy]_vars

-----------------------------------------------------------------------------
(* C26: the energy-spike check is applied to a sensor if and only if the    *)
(* sensor_type of its latest reading starts with "energy_": on a window     *)
(* with a spike (historical 18, 22, recent mean 28) it returns an anomaly   *)
(* for exactly those types, every type of an EnergyMeter among them.        *)

C26_LatestType == Last(sensor_data[lastOp.arg[1]]).sensor_type

C26_TaggedEnergy ==
    Len(C26_LatestType) >= 7 /\ SubSeq(C26_LatestType, 1, 7) = "energy_"

C26_SpikeCheckedIffEnergyTagged ==
    (/\ lastOp.op = "detect_energy_anomalies"
     /\ ValuesOf(sensor_data[lastOp.arg[1]]) = <<18, 22>> \o Rep(10, 28))
        => ((returned # <<>>) <=> C26_TaggedEnergy)

-----------------------------------------------------------------------------
(* SpecAlign: _analyze_sensor_correlation, and the alignment it starts      *)
(* with, on the buffers of two sensors.  The buffers are short ones with    *)
(* timestamps 0 s, 60 s and 125 s apart in any order and with repetitions,  *)
(* or the first 9, 10 or 20 readings of the two series of SpecDefault whose *)
(* correlation breaks down.                                                 *)

AlignTimes == {0, AlignTolerance, 2 * AlignTolerance + 1}

ShortBuffers(s, values) ==
    UNION {[1..n -> {Reading(s, v, ts) : v \in values, ts \in AlignTimes}] :
              n \in 0..MaxAligned}

SeriesBuffer(s, series, n) == [i \in 1..n |-> Reading(s, series[i], SeedTime(i))]

InitAlign ==
    /\ InitBuilding({SameZone})
    /\ InitSystem
    /\ config = DefaultConfig
    /\ \/ \E b1 \in ShortBuffers("s1", {5, 6}), b2 \in ShortBuffers("s2", {1, 2}) :
             sensor_data = [s \in Sensors |-> IF s = "s1" THEN b1 ELSE b2]
       \/ \E n \in {MinAlignedPairs - 1, MinAlignedPairs, 2 * MinAlignedPairs} :
             sensor_data = [s \in Sensors |->
                 IF s = "s1" THEN SeriesBuffer(s, <<30, 0>> \o Alternating(18, 5, 6), n)
                 ELSE SeriesBuffer(s, <<30, 0>> \o Alternating(18, 6, 5), n)]
    /\ inserted = sensor_data
    /\ sensor_keys = BuildingSensors
    /\ detected_anomalies = <<>>
    /\ accepted = <<>>
    /\ network_graph = NoGraph
    /\ returned = <<>>

CallAnalyzeSensorCorrelation ==
    /\ \E s1 \in Sensors, s2 \in Sensors :
          /\ s1 # s2
          /\ sensor_data[s1] # <<>>
          /\ result' = [op |-> "align_sensor_readings",
                        ret |-> AlignSensorReadings(sensor_data[s1], sensor_data[s2])]
          /\ returned' = AnalyzeSensorCorrelation(sensor_data, s1, s2)
          /\ lastOp' = [op |-> "analyze_sensor_correlation", arg |-> <<s1, s2>>]
    /\ UNCHANGED <<detectorVars, buildingVars, config, lifeVars, storeVars, threadVars,
                   now, inserted, histVars>>

NextAlign == CallAnalyzeSensorCorrelation

SpecAlign == InitAlign /\ [][NextAlign]_vars

-----------------------------------------------------------------------------
(* C27: the alignment is greedy.  Each distinct timestamp of the target     *)
(* sensor, in the order of its first reading, yields at most one pair,      *)
(* formed with the first reading of the other sensor's buffer whose         *)
(* timestamp is within 60 seconds, nearest or not, reused or not; the check *)
(* returns no anomaly when fewer than 10 pairs result.                      *)
(* As stated, the pair carries the value of that first reading.  In the     *)
(* code the two buffers are first turned into dictionaries keyed by         *)
(* timestamp, so the pair carries, for either sensor, the value of the last *)
(* reading that has the timestamp.                                          *)

C27_Target == sensor_data[lastOp.arg[1]]
C27_Other == sensor_data[lastOp.arg[2]]

C27_Within(i, j) ==
    Abs(C27_Target[i].timestamp - C27_Other[j].timestamp) <= 12

C27_FirstWithin(i) ==
    CHOOSE j \in 1..Len(C27_Other) :
        C27_Within(i, j) /\ \A k \in 1..(j - 1) : ~C27_Within(i, k)

C27_LastValueAt(readings, ts) ==
    readings[CHOOSE j \in 1..Len(readings) :
                /\ readings[j].timestamp = ts
                /\ \A k \in (j + 1)..Len(readings) : readings[k].timestamp # ts].value

RECURSIVE C27_Pairs(_, _)
C27_Pairs(i, lastOfOther) ==
    IF i > Len(C27_Target) THEN <<>>
    ELSE (IF (\E j \in 1..(i - 1) : C27_Target[j].timestamp = C27_Target[i].timestamp)
             \/ ~(\E j \in 1..Len(C27_Other) : C27_Within(i, j))
          THEN <<>>
          ELSE <<<<C27_LastValueAt(C27_Target, C27_Target[i].timestamp),
                   IF lastOfOther
                   THEN C27_LastValueAt(C27_Other, C27_Other[C27_FirstWithin(i)].timestamp)
                   ELSE C27_Other[C27_FirstWithin(i)].value>>>>)
         \o C27_Pairs(i + 1, lastOfOther)

C27_PairsWithFirstReading ==
    lastOp.op = "analyze_sensor_correlation" =>
        /\ result.ret = C27_Pairs(1, FALSE)
        /\ Len(result.ret) < 10 => returned = <<>>

C27_PairsWithFirstTimestamp ==
    lastOp.op = "analyze_sensor_correlation" =>
        /\ result.ret = C27_Pairs(1, TRUE)
        /\ Len(result.ret) < 10 => returned = <<>>

C27_Witness ==
    /\ lastOp.op = "analyze_sensor_correlation"
    /\ lastOp.arg = <<"s1", "s2">>
    /\ [i \in 1..Len(C27_Target) |-> C27_Target[i].timestamp] = <<12, 0>>
    /\ [i \in 1..Len(C27_Other) |-> C27_Other[i].timestamp] = <<0, 12>>
    /\ C27_Other[1].value # C27_Other[2].value
    /\ result.ret = <<<<C27_Target[1].value, C27_Other[1].value>>,
                      <<C27_Target[2].value, C27_Other[1].value>>>>

-----------------------------------------------------------------------------
(* SpecInterleaved: _collect_sensor_readings run by the worker thread, in   *)
(* its loop, and by a caller thread, in simulate_step, at the same time.    *)
(* Neither takes a lock, so the passes interleave at the steps of a pass:   *)
(* for each sensor of the building in turn, "append" (is_active,            *)
(* take_reading, the append of add_sensor_reading), "evict" (its pop(0)     *)
(* when the buffer is longer than window_size), "load" and "store" (the     *)
(* read and the write of self.total_readings += 1); then "snapshot" (the    *)
(* append to reading_history) and "trim" (its pop(0)).  Every reading       *)
(* succeeds with value 0 and the clock stands still.                        *)

NoPass == [step |-> "none", i |-> 0, loaded |-> 0, timestamp |-> NoTime]

PassStart == [step |-> "append", i |-> 1, loaded |-> 0, timestamp |-> now]

InPass(pass) == pass.step \in {"append", "evict", "load", "store", "snapshot", "trim"}

SensorAt(pass) == BuildingSensors[pass.i]

NextSensor(pass) ==
    IF pass.i < Len(BuildingSensors)
    THEN [pass EXCEPT !.step = "append", !.i = @ + 1]
    ELSE [pass EXCEPT !.step = "snapshot"]

Appends(pass) == pass.step = "append" /\ IsActive(status, SensorAt(pass))

PassAdvance(pass) ==
    CASE pass.step = "append" ->
            IF IsActive(status, SensorAt(pass)) THEN [pass EXCEPT !.step = "evict"]
            ELSE NextSensor(pass)
      [] pass.step = "evict" -> [pass EXCEPT !.step = "load"]
      [] pass.step = "load" -> [pass EXCEPT !.step = "store", !.loaded = total_readings]
      [] pass.step = "store" -> NextSensor(pass)
      [] pass.step = "snapshot" ->
            [pass EXCEPT !.step = IF config.save_history THEN "trim" ELSE "end"]
      [] pass.step = "trim" -> [pass EXCEPT !.step = "end"]

PassEffects(pass) ==
    LET s == SensorAt(pass)
        reading == Reading(s, 0, pass.timestamp)
        snapshot == Snapshot(status, AllOk, pass.timestamp)
    IN  /\ sensor_data' =
              IF Appends(pass) THEN [sensor_data EXCEPT ![s] = Append(@, reading)]
              ELSE IF pass.step = "evict" /\ Len(sensor_data[s]) > WindowSize
              THEN [sensor_data EXCEPT ![s] = Tail(@)]
              ELSE sensor_data
        /\ inserted' = IF Appends(pass) THEN [inserted EXCEPT ![s] = Append(@, reading)]
                       ELSE inserted
        /\ sensor_keys' = IF Appends(pass) THEN AddedKeys(sensor_keys, s) ELSE sensor_keys
        /\ total_readings' = IF pass.step = "store" THEN pass.loaded + 1 ELSE total_readings
        /\ reading_history' =
              IF pass.step = "snapshot" /\ config.save_history
              THEN Append(reading_history, snapshot)
              ELSE IF pass.step = "trim" /\ Len(reading_history) > MaxHistorySize
              THEN Tail(reading_history)
              ELSE reading_history
        /\ hist' = IF pass.step = "snapshot" /\ config.save_history
                   THEN [hist EXCEPT !.snapshots = Append(@, snapshot)]
                   ELSE hist

InitInterleaved ==
    /\ InitDetector
    /\ InitBuilding({SameZone})
    /\ config = DefaultConfig
    /\ is_running = TRUE
    /\ monitoring_thread = 1
    /\ stop_event = FALSE
    /\ reading_history = <<>>
    /\ alert_history = <<>>
    /\ start_time = 0
    /\ total_readings = 0
    /\ total_anomalies = 0
    /\ now = 0
    /\ workers = [t \in Threads |->
                      [pc |-> IF t = 1 THEN "collect" ELSE "unborn",
                       last_anomaly_check |-> IF t = 1 THEN 0 ELSE NoTime,
                       since |-> NoTime,
                       began |-> IF t = 1 THEN 0 ELSE NoTime,
                       detected |-> NoTime,
                       pass |-> NoPass]]
    /\ caller = [pc |-> "idle", join_start |-> NoTime]
    /\ lastOp = NoOp
    /\ hist = [collect_passes |-> 0, active_sum |-> 0, failures |-> 0, snapshots |-> <<>>]
    /\ detect_passes = 0
    /\ result = [op |-> "none", pass |-> NoPass]

\* the worker enters _collect_sensor_readings
WorkerPassBegin ==
    /\ workers[1].pc = "collect"
    /\ ~InPass(workers[1].pass)
    /\ hist.collect_passes < MaxPasses
    /\ workers' = [workers EXCEPT ![1].pass = PassStart]
    /\ hist' = [hist EXCEPT !.collect_passes = @ + 1]
    /\ lastOp' = [op |-> "worker", arg |-> <<>>]
    /\ UNCHANGED <<detectorVars, buildingVars, config, result, lifeVars, storeVars, caller, now,
                   inserted, returned, detect_passes>>

\* one step of the worker's pass; after the last one the worker finds the
\* check interval not elapsed, waits and comes back to the top of its loop
WorkerPassStep ==
    /\ InPass(workers[1].pass)
    /\ PassEffects(workers[1].pass)
    /\ workers' = [workers EXCEPT ![1].pass = PassAdvance(workers[1].pass)]
    /\ lastOp' = [op |-> "worker", arg |-> <<>>]
    /\ UNCHANGED <<detected_anomalies, accepted, network_graph, buildingVars, config, result,
                   lifeVars, alert_history, total_anomalies, caller, now, returned,
                   detect_passes>>

\* simulate_step enters _collect_sensor_readings
CallerPassBegin ==
    /\ ~InPass(result.pass)
    /\ result.pass.step # "end"
    /\ hist.collect_passes < MaxPasses
    /\ result' = [op |-> "simulate_step", pass |-> PassStart]
    /\ hist' = [hist EXCEPT !.collect_passes = @ + 1]
    /\ lastOp' = [op |-> "simulate_step_begin", arg |-> <<>>]
    /\ UNCHANGED <<detectorVars, buildingVars, config, lifeVars, storeVars, threadVars, now,
                   inserted, returned, detect_passes>>

CallerPassStep ==
    /\ InPass(result.pass)
    /\ PassEffects(result.pass)
    /\ result' = [result EXCEPT !.pass = PassAdvance(result.pass)]
    /\ lastOp' = [op |-> "simulate_step_collect", arg |-> <<>>]
    /\ UNCHANGED <<detected_anomalies, accepted, network_graph, buildingVars, config,
                   lifeVars, alert_history, total_anomalies, threadVars, now, returned,
                   detect_passes>>

\* simulate_step's _perform_anomaly_detection, and its return
CallerDetect ==
    /\ result.pass.step = "end"
    /\ PerformAnomalyDetection(sensor_data, sensor_keys)
    /\ result' = [op |-> "simulate_step", pass |-> NoPass]
    /\ lastOp' = [op |-> "simulate_step", arg |-> <<>>]
    /\ UNCHANGED <<sensor_data, sensor_keys, buildingVars, config, lifeVars, reading_history,
                   total_readings, threadVars, now, inserted, hist>>

NextInterleaved ==
    \/ WorkerPassBegin
    \/ WorkerPassStep
    \/ CallerPassBegin
    \/ CallerPassStep
    \/ CallerDetect

SpecInterleaved == InitInterleaved /\ [][NextInterleaved]_vars

-----------------------------------------------------------------------------
(* C28: when no collection pass is in progress, total_readings is the       *)
(* number of readings the passes of the worker and of simulate_step have    *)
(* fed to the detector, every buffer holds at most window_size readings     *)
(* and the reading history at most max_history_size snapshots.              *)

C28_NoPassInProgress ==
    /\ \A t \in Threads : ~InPass(workers[t].pass)
    /\ ~InPass(result.pass)

C28_NoUpdateLost ==
    C28_NoPassInProgress =>
        /\ total_readings = SumSeq([i \in 1..Len(BuildingSensors) |->
                                       Len(inserted[BuildingSensors[i]])])
        /\ \A s \in Sensors : Len(sensor_data[s]) <= WindowSize
        /\ Len(reading_history) <= MaxHistorySize

-----------------------------------------------------------------------------
(* C29: a sensor whose take_reading raised the simulated failure is left in *)
(* status error.  A collection pass skips every sensor that is not active:  *)
(* no reading is fed to the detector for it, it has no entry and no error   *)
(* entry in the snapshot, it is not counted in total_readings, and its      *)
(* status stays; only reset() or set_maintenance_mode make it active again. *)
(* The error entry appears in the pass of the failure only.                 *)

C29_Step ==
    /\ \A s \in Sensors :
          (status[s] # "active" /\ status'[s] = "active") => lastOp'.op = "sensor_status"
    /\ lastOp'.op = "simulate_step" =>
          LET outcome == lastOp'.arg[1]
          IN  /\ \A s \in Sensors :
                    /\ (status[s] = "active" /\ ~outcome[s].ok) => status'[s] = "error"
                    /\ status[s] # "active" =>
                          /\ status'[s] = status[s]
                          /\ inserted'[s] = inserted[s]
                          /\ sensor_data'[s] = sensor_data[s]
                    /\ config.save_history =>
                          /\ status[s] # "active" =>
                                Last(reading_history').readings[s].kind = "absent"
                          /\ (Last(reading_history').readings[s].kind = "error")
                                <=> (status[s] = "active" /\ ~outcome[s].ok)
              /\ total_readings' - total_readings
                    <= Cardinality({s \in Sensors : status[s] = "active"})

-----------------------------------------------------------------------------
(* SpecClear: the system of SpecMon with all sensors in service, whose      *)
(* caller may also call clear_history.                                      *)

ClearHistory ==
    /\ reading_history' = <<>>
    /\ alert_history' = <<>>
    /\ detected_anomalies' = <<>>

CallClearHistory ==
    /\ caller.pc = "idle"
    /\ ClearHistory
    /\ result' = [op |-> "clear_history"]
    /\ lastOp' = [op |-> "clear_history", arg |-> <<>>]
    /\ UNCHANGED <<sensor_data, sensor_keys, network_graph, accepted, buildingVars, config,
                   lifeVars, total_readings, total_anomalies, threadVars, now, inserted,
                   returned, histVars>>

NextClear ==
    \/ CallSimulateStep
    \/ CallStartMonitoring
    \/ CallStopMonitoring
    \/ CallClearHistory

SpecClear == InitMon /\ [][NextClear]_vars

-----------------------------------------------------------------------------
(* C30: as long as clear_history has not been called (clear_old_anomalies   *)
(* is not called here, and detection runs in simulate_step only),           *)
(* total_anomalies equals the number of anomalies in the detector's store;  *)
(* total_anomalies never decreases; clear_history empties the reading,      *)
(* alert and anomaly stores and leaves total_readings and total_anomalies   *)
(* as they are.                                                             *)

C30_Step ==
    /\ total_anomalies' >= total_anomalies
    /\ lastOp'.op = "clear_history" =>
          /\ reading_history' = <<>>
          /\ alert_history' = <<>>
          /\ detected_anomalies' = <<>>
          /\ total_readings' = total_readings
          /\ total_anomalies' = total_anomalies

C30_TotalAnomaliesCountsStore ==
    /\ [](result.op # "clear_history" => total_anomalies = Len(detected_anomalies))
    /\ [][C30_Step]_vars

C30_Witness ==
    /\ lastOp.op = "clear_history"
    /\ total_anomalies = Len(accepted)
    /\ total_anomalies > 0
    /\ total_readings > 0
    /\ detected_anomalies = <<>>
    /\ reading_history = <<>>

====
